---- MODULE Spec2Model ----
(***************************************************************************)
(* Port allocation (core/port_manager.py) and MCP server process           *)
(* supervision (core/server_manager.py) of the MCP manager.                *)
(*                                                                         *)
(* The two components share no state in the code: PortManager owns the     *)
(* port registry file, ServerManager owns the table of process handles and *)
(* the captured logs.  SpecPM runs the operations of the first, SpecSM the *)
(* operations of the second.  SpecLog runs the output drain on a log that  *)
(* is close to its cap, SpecEnv runs start and stop over the argument      *)
(* lists and environments a configuration entry can hold.  SpecIO runs the *)
(* allocator on a registry file whose reads and writes fail, SpecProbe on  *)
(* hosts whose ports refuse, accept, time out or raise.  SpecDoc runs the  *)
(* two writers of the configuration document, deploy_template and the save *)
(* of the configuration form (ui/server_panel.py).                         *)
(* SpecRace runs allocate_port_range in two management-tool processes at   *)
(* once, SpecRelease runs release_port_range next to a started server, and *)
(* SpecFleet runs the supervisor with the servers of two instances.        *)
(***************************************************************************)
EXTENDS Integers, Sequences, FiniteSets, TLC

VARIABLES
    allocated_ports,  \* port_registry.json: "allocated_ports", instance name -> base port
    returned,         \* base port returned by allocate_port_range per name, dropped at release
    pm_last,          \* the last PortManager call: operation, name, return value, probed ports
    inflight,         \* per management-tool process, its allocate_port_range call in progress:
                      \* position, name, mapping read, base found, whether it wrote last
    config,           \* claude_desktop_config.json of each instance: whether the file is there and
                      \* loads, its mcpServers entries in order, its other top-level keys
    servers,          \* ServerManager.servers: instance name -> {server name -> process}, in dict order
    server_logs,      \* ServerManager.server_logs: instance name -> {server name -> [log lines]}
    procs             \* the subprocesses launched so far, by handle: pair, alive, lines written,
                      \* bytes written after the last newline, lines read

pm_vars == <<allocated_ports, returned, pm_last, inflight>>

sm_vars == <<config, servers, server_logs, procs>>

vars == <<allocated_ports, returned, pm_last, inflight, config, servers, server_logs, procs>>

----------------------------------------------------------------------------
(* Bounds of the model *)

\* allocation is cut off once the highest base is this many ranges above MCP_BASE_PORT
MaxSlot == 4
\* the host's busy ports start at one of the first MaxFirstSlot ranges above MCP_BASE_PORT
MaxFirstSlot == 3
\* subprocesses launched in one run
MaxProcs == 2
\* output lines written in one run, over all subprocesses
MaxLines == 1
\* in SpecLog: the log starts at most this many lines below LogCap, and the subprocess
\* writes at most this many lines beyond LogCap
MaxExtra == 2

----------------------------------------------------------------------------
(* Program constants *)

MCP_BASE_PORT == 9000
MCP_PORT_RANGE == 100
ProbeAttempts == 10

PMInstances == {"alpha", "beta", "gamma"}

Tools == {"filesystem", "sequential-thinking", "memory", "desktop-commander",
          "repl", "@executeautomation-playwright-mcp-server", "other-tool"}

test_offsets == <<10, 20, 30, 40>>

----------------------------------------------------------------------------
(* Helpers on mappings (Python dicts) *)

Range(f) == {f[x] : x \in DOMAIN f}

DictPut(f, k, v) == [x \in (DOMAIN f) \cup {k} |-> IF x = k THEN v ELSE f[x]]

DictDel(f, k) == [x \in (DOMAIN f) \ {k} |-> f[x]]

EmptyDict == [x \in {} |-> 0]

SetMax(S) == CHOOSE m \in S : \A x \in S : x <= m

Abs(x) == IF x < 0 THEN -x ELSE x

----------------------------------------------------------------------------
(* The host seen by a call.  For the connect probes: the ports a connect   *)
(* reaches (listening), the ports whose connect gives up after the timeout *)
(* (timing_out) and the ports whose probe raises (raising).  For the       *)
(* registry file: whether the read made by get_port_base, by               *)
(* allocate_port_range and by _find_next_port_base succeeds, and what the  *)
(* write does.                                                             *)

\* a write replaces the file, is refused when the file is opened, or fails after the
\* file was opened for writing, which leaves a file json.load rejects
SaveOutcomes == {"written", "refused", "truncated"}

IoOutcomes ==
    [load_get : BOOLEAN, load_alloc : BOOLEAN, load_find : BOOLEAN, save : SaveOutcomes]

IoOk == [load_get |-> TRUE, load_alloc |-> TRUE, load_find |-> TRUE, save |-> "written"]

HostOf(first, run, off, err) ==
    LET ports == {MCP_BASE_PORT + s * MCP_PORT_RANGE + off : s \in first..(first + run - 1)}
    IN  [listening  |-> IF err THEN {} ELSE ports,
         raising    |-> IF err THEN ports ELSE {},
         timing_out |-> {},
         io         |-> IoOk]

BusyRuns == {0, 1, 2, ProbeAttempts}

\* which of the four key ports of a busy range is busy, and whether its probe raises
BusyKinds == {<<1, FALSE>>, <<4, FALSE>>, <<2, TRUE>>}

Hosts == {HostOf(first, run, test_offsets[b[1]], b[2]) :
            first \in 1..MaxFirstSlot, run \in BusyRuns, b \in BusyKinds}

QuietHost == HostOf(1, 0, test_offsets[1], FALSE)

\* the hosts that make a difference to a call: none is probed for a name that has a base
HostsFor(reg, instance_name) ==
    IF instance_name \in DOMAIN reg THEN {QuietHost} ELSE Hosts

\* hosts on which the key port at offset off of run ranges from first on drops the
\* connection attempt, so that connect_ex gives up after the timeout
TimeoutHostOf(first, run, off) ==
    [HostOf(first, run, off, FALSE) EXCEPT
        !.listening = {}, !.timing_out = HostOf(first, run, off, FALSE).listening]

\* the hosts the probe of one port or one range is examined on
ProbeHosts ==
    Hosts \cup {TimeoutHostOf(first, ProbeAttempts, test_offsets[1]) : first \in 1..MaxFirstSlot}

\* the hosts on which the registry file fails
IoHosts == {[QuietHost EXCEPT !.io = io] : io \in IoOutcomes}

\* what connect_ex reports for a probe that does not raise
connect_ex(port, host) ==
    CASE port \in host.listening -> "connected"
      [] port \in host.timing_out -> "timed_out"
      [] OTHER -> "refused"

RaiseIsFree_is_port_available(port, host) ==
    IF port \in host.raising THEN TRUE ELSE connect_ex(port, host) # "connected"

\* connect_ex returns 0 when the port is in use; an exception counts as in use
is_port_available(port, host) ==
    IF port \in host.raising THEN FALSE ELSE connect_ex(port, host) # "connected"

\* the four key ports are tested in order, stopping at the first unavailable one
RECURSIVE check_ports_from(_, _, _, _)
check_ports_from(k, port_base, host, probed) ==
    IF k > Len(test_offsets) THEN [ok |-> TRUE, probed |-> probed]
    ELSE LET port == port_base + test_offsets[k]
         IN  IF ~is_port_available(port, host)
             THEN [ok |-> FALSE, probed |-> Append(probed, port)]
             ELSE check_ports_from(k + 1, port_base, host, Append(probed, port))

check_port_range_available(port_base, host, probed) ==
    check_ports_from(1, port_base, host, probed)

FirstFit_probe_candidates(i, next_base, host, probed) ==
    [base |-> next_base, probed |-> probed \o <<next_base + test_offsets[1]>>]

RECURSIVE probe_candidates(_, _, _, _)
probe_candidates(i, next_base, host, probed) ==
    IF i >= ProbeAttempts THEN [base |-> next_base, probed |-> probed]
    ELSE LET port_base == next_base + (i * MCP_PORT_RANGE)
             r == check_port_range_available(port_base, host, probed)
         IN  IF r.ok THEN [base |-> port_base, probed |-> r.probed]
             ELSE probe_candidates(i + 1, next_base, host, r.probed)

highest_port(reg) == SetMax({MCP_BASE_PORT} \cup Range(reg))

Strict_load_registry(reg, ok) == reg

\* the mapping a read gives: the file's, or an empty one when the read fails
load_registry(reg, ok) == IF ok THEN reg ELSE EmptyDict

Merging_save_registry(reg, new, outcome) ==
    [k \in (DOMAIN reg) \cup (DOMAIN new) |-> IF k \in DOMAIN new THEN new[k] ELSE reg[k]]

\* the file's mapping after a write of new over reg
save_registry(reg, new, outcome) ==
    CASE outcome = "written" -> new
      [] outcome = "refused" -> reg
      [] OTHER -> EmptyDict

NoRangeStep_find_next_port_base(reg, host) ==
    probe_candidates(0, highest_port(reg), host, <<>>)

IgnoreRegistry_find_next_port_base(reg, host) ==
    probe_candidates(0, MCP_BASE_PORT + MCP_PORT_RANGE, host, <<>>)

find_next_port_base(reg, host) ==
    probe_candidates(0, highest_port(load_registry(reg, host.io.load_find)) + MCP_PORT_RANGE,
                     host, <<>>)

\* the mapping after the call, the value returned and the ports probed
AlwaysFresh_allocate_port_range(reg, instance_name, host) ==
    LET f == find_next_port_base(reg, host)
    IN  [reg |-> DictPut(reg, instance_name, f.base), ret |-> f.base, probed |-> f.probed]

allocate_port_range(reg, instance_name, host) ==
    LET loaded == load_registry(reg, host.io.load_alloc)
    IN  IF instance_name \in DOMAIN loaded
        THEN [reg |-> reg, ret |-> loaded[instance_name], probed |-> <<>>]
        ELSE LET f == find_next_port_base(reg, host)
             IN  [reg |-> save_registry(reg, DictPut(loaded, instance_name, f.base),
                                        host.io.save),
                  ret |-> f.base, probed |-> f.probed]

get_port_base(reg, instance_name, host) ==
    LET loaded == load_registry(reg, host.io.load_get)
    IN  IF instance_name \in DOMAIN loaded
        THEN [reg |-> reg, ret |-> loaded[instance_name], probed |-> <<>>]
        ELSE allocate_port_range(reg, instance_name, host)

DefaultZero_tool_offset(tool_name) ==
    CASE tool_name = "filesystem" -> 10
      [] tool_name = "sequential-thinking" -> 20
      [] tool_name = "memory" -> 30
      [] tool_name = "desktop-commander" -> 40
      [] tool_name = "repl" -> 50
      [] tool_name = "@executeautomation-playwright-mcp-server" -> 60
      [] OTHER -> 0

WideDefault_tool_offset(tool_name) ==
    CASE tool_name = "filesystem" -> 10
      [] tool_name = "sequential-thinking" -> 20
      [] tool_name = "memory" -> 30
      [] tool_name = "desktop-commander" -> 40
      [] tool_name = "repl" -> 50
      [] tool_name = "@executeautomation-playwright-mcp-server" -> 60
      [] OTHER -> 110

SharedOffset_tool_offset(tool_name) ==
    CASE tool_name = "filesystem" -> 10
      [] tool_name = "sequential-thinking" -> 20
      [] tool_name = "memory" -> 30
      [] tool_name = "desktop-commander" -> 40
      [] tool_name = "repl" -> 40
      [] tool_name = "@executeautomation-playwright-mcp-server" -> 60
      [] OTHER -> 90

tool_offset(tool_name) ==
    CASE tool_name = "filesystem" -> 10
      [] tool_name = "sequential-thinking" -> 20
      [] tool_name = "memory" -> 30
      [] tool_name = "desktop-commander" -> 40
      [] tool_name = "repl" -> 50
      [] tool_name = "@executeautomation-playwright-mcp-server" -> 60
      [] OTHER -> 90

get_tool_port(reg, instance_name, tool_name, host) ==
    LET b == get_port_base(reg, instance_name, host)
    IN  [reg |-> b.reg, ret |-> b.ret + tool_offset(tool_name), probed |-> b.probed]

KeepEntry_release_port_range(reg, instance_name) ==
    [reg |-> reg, ret |-> instance_name \in DOMAIN reg]

DropAll_release_port_range(reg, instance_name) ==
    IF instance_name \in DOMAIN reg
    THEN [reg |-> EmptyDict, ret |-> TRUE]
    ELSE [reg |-> reg, ret |-> FALSE]

release_port_range(reg, instance_name) ==
    IF instance_name \in DOMAIN reg
    THEN [reg |-> DictDel(reg, instance_name), ret |-> TRUE]
    ELSE [reg |-> reg, ret |-> FALSE]

----------------------------------------------------------------------------
(* PortManager operations as actions *)

\* a call that has to allocate is cut off once the bases have grown to MaxSlot
MayGrow(instance_name, host) ==
    \/ /\ instance_name \in DOMAIN allocated_ports
       /\ host.io.load_get
       /\ host.io.load_alloc
    \/ highest_port(allocated_ports) < MCP_BASE_PORT + MaxSlot * MCP_PORT_RANGE

AllocatePortRange(instance_name, host) ==
    /\ MayGrow(instance_name, host)
    /\ LET r == allocate_port_range(allocated_ports, instance_name, host)
       IN  /\ allocated_ports' = r.reg
           /\ returned' = DictPut(returned, instance_name, r.ret)
           /\ pm_last' = [op |-> "allocate_port_range", name |-> instance_name,
                          ret |-> r.ret, probed |-> r.probed]
           /\ UNCHANGED <<inflight, sm_vars>>

GetPortBase(instance_name, host) ==
    /\ MayGrow(instance_name, host)
    /\ LET r == get_port_base(allocated_ports, instance_name, host)
       IN  /\ allocated_ports' = r.reg
           /\ returned' = IF instance_name \in DOMAIN load_registry(allocated_ports,
                                                                     host.io.load_get)
                          THEN returned
                          ELSE DictPut(returned, instance_name, r.ret)
           /\ pm_last' = [op |-> "get_port_base", name |-> instance_name,
                          ret |-> r.ret, probed |-> r.probed]
           /\ UNCHANGED <<inflight, sm_vars>>

GetToolPort(instance_name, tool_name, host) ==
    /\ MayGrow(instance_name, host)
    /\ LET r == get_tool_port(allocated_ports, instance_name, tool_name, host)
       IN  /\ allocated_ports' = r.reg
           /\ returned' = IF instance_name \in DOMAIN load_registry(allocated_ports,
                                                                     host.io.load_get)
                          THEN returned
                          ELSE DictPut(returned, instance_name, r.ret - tool_offset(tool_name))
           /\ pm_last' = [op |-> "get_tool_port", name |-> instance_name,
                          ret |-> r.ret, probed |-> r.probed]
           /\ UNCHANGED <<inflight, sm_vars>>

ReleasePortRange(instance_name) ==
    LET r == release_port_range(allocated_ports, instance_name)
    IN  /\ allocated_ports' = r.reg
        /\ returned' = DictDel(returned, instance_name)
        /\ pm_last' = [op |-> "release_port_range", name |-> instance_name,
                       ret |-> r.ret, probed |-> <<>>]
        /\ UNCHANGED <<inflight, sm_vars>>

\* the management-tool processes that share the registry file
ToolProcesses == {"tool-1", "tool-2"}

\* no call in progress
NoCall ==
    [pc |-> "idle", name |-> "", loaded |-> EmptyDict, seen |-> EmptyDict,
     host |-> QuietHost, base |-> 0, fresh |-> FALSE, last |-> FALSE]

PMInit ==
    /\ allocated_ports = EmptyDict
    /\ returned = EmptyDict
    /\ pm_last = [op |-> "init", name |-> "", ret |-> 0, probed |-> <<>>]
    /\ inflight = [q \in ToolProcesses |-> NoCall]

PMNext ==
    \/ \E n \in PMInstances : \E h \in HostsFor(allocated_ports, n) : AllocatePortRange(n, h)
    \/ \E n \in PMInstances : \E h \in HostsFor(allocated_ports, n) : GetPortBase(n, h)
    \/ \E n \in PMInstances, t \in Tools : \E h \in HostsFor(allocated_ports, n) :
          GetToolPort(n, t, h)
    \/ \E n \in PMInstances : ReleasePortRange(n)

----------------------------------------------------------------------------
(* Process supervisor: data *)

SMInstances == {"alpha"}

Servers == {"memory", "filesystem"}

\* the commands on the host's PATH; Popen raises for any other command
Installed == {"npx"}

LogCap == 1000

\* the argument lists of the templates
MemoryArgs == <<"-y", "pkg", "--port", "0">>

FilesystemArgs == <<"-y", "fs">>

\* ServerTemplate objects handed to deploy_template
Templates ==
    {[server_name |-> "memory", command |-> "npx", args |-> MemoryArgs,
      env |-> EmptyDict, auto_start |-> TRUE],
     [server_name |-> "memory", command |-> "no-such-command", args |-> MemoryArgs,
      env |-> EmptyDict, auto_start |-> TRUE],
     [server_name |-> "filesystem", command |-> "npx", args |-> FilesystemArgs,
      env |-> EmptyDict, auto_start |-> TRUE],
     [server_name |-> "filesystem", command |-> "npx", args |-> FilesystemArgs,
      env |-> EmptyDict, auto_start |-> FALSE]}

\* the port arguments deploy_template is called with
DeployPorts == {0}

\* os.environ of the manager
OsEnviron == [k \in {"PATH", "MCP_PORT"} |-> IF k = "PATH" THEN "/usr/bin" ELSE "1"]

\* int() and str() on the tokens and the numbers of the model: the tokens int() accepts
\* with their values, and the decimal text of each value
IntTokens == {"0", "9130", "9140", "0080", "-1"}

IntOf(token) ==
    CASE token = "0" -> 0
      [] token = "9130" -> 9130
      [] token = "9140" -> 9140
      [] token = "0080" -> 80
      [] token = "-1" -> -1

StrOf(n) ==
    CASE n = 0 -> "0"
      [] n = 9130 -> "9130"
      [] n = 9140 -> "9140"
      [] n = 80 -> "80"
      [] n = -1 -> "-1"

\* dict.update: the entries of g over those of f
Merge(f, g) == [k \in (DOMAIN f) \cup (DOMAIN g) |-> IF k \in DOMAIN g THEN g[k] ELSE f[k]]

\* list.index, 1-based; 0 stands for ValueError
Index(args, token) ==
    IF \E k \in 1..Len(args) : args[k] = token
    THEN CHOOSE k \in 1..Len(args) : args[k] = token /\ \A j \in 1..(k - 1) : args[j] # token
    ELSE 0


\* output lines a subprocess writes, without the newline, as character sequences
RawLines == {<<"r">>, <<" ", "r", " ">>, <<>>}

\* what a subprocess writes without ending the line
Fragments == {<<"r">>}

Whitespace == {" "}

\* Python dicts whose iteration order is used: sequences of <<key, value>>
OdHas(d, k) == \E i \in 1..Len(d) : d[i][1] = k

OdGet(d, k) == d[CHOOSE i \in 1..Len(d) : d[i][1] = k][2]

OdKeys(d) == [i \in 1..Len(d) |-> d[i][1]]

RECURSIVE OdReplace(_, _, _)
OdReplace(d, k, v) ==
    IF d = <<>> THEN <<>>
    ELSE <<IF Head(d)[1] = k THEN <<k, v>> ELSE Head(d)>> \o OdReplace(Tail(d), k, v)

OdPut(d, k, v) == IF OdHas(d, k) THEN OdReplace(d, k, v) ELSE Append(d, <<k, v>>)

RECURSIVE OdDel(_, _)
OdDel(d, k) ==
    IF d = <<>> THEN <<>>
    ELSE IF Head(d)[1] = k THEN Tail(d)
    ELSE <<Head(d)>> \o OdDel(Tail(d), k)

\* str.strip()
RECURSIVE lstrip(_)
lstrip(s) == IF s # <<>> /\ Head(s) \in Whitespace THEN lstrip(Tail(s)) ELSE s

RECURSIVE rstrip(_)
rstrip(s) ==
    IF s # <<>> /\ s[Len(s)] \in Whitespace THEN rstrip(SubSeq(s, 1, Len(s) - 1)) ELSE s

strip(s) == rstrip(lstrip(s))

\* a document that cannot be loaded (missing file, unreadable JSON): None
NoDocument ==
    [exists |-> FALSE, loadable |-> FALSE, has_mcpServers |-> FALSE, mcpServers |-> <<>>,
     other |-> EmptyDict]

\* the top-level keys of the baseline document
BaselineKeys ==
    [k \in {"showTray", "electronInitScript"} |->
        IF k = "showTray" THEN "true" ELSE "/home/claude/.config/Claude/electron/preload.js"]

\* the baseline document, without the mcpServers key
BaseDocument ==
    [exists |-> TRUE, loadable |-> TRUE, has_mcpServers |-> FALSE, mcpServers |-> <<>>,
     other |-> BaselineKeys]

\* a file that is there but that json.load rejects
CorruptDocument == [NoDocument EXCEPT !.exists = TRUE]

\* the document {}
EmptyObject == [BaseDocument EXCEPT !.other = EmptyDict]

\* a document with a top-level key of its own and no mcpServers key
ThemedDocument == [BaseDocument EXCEPT !.other = "theme" :> "dark"]

\* the documents put in place from outside the manager
Documents == {NoDocument, CorruptDocument, EmptyObject, ThemedDocument}

get_instance_mcp_config(cfg, instance_name) == cfg[instance_name]

\* "not config": None for a missing or rejected file, or a dict without keys
not_config(c) == ~c.loadable \/ (~c.has_mcpServers /\ DOMAIN c.other = {})

get_config(template, port) ==
    LET at == Index(template.args, "--port")
        args == IF at # 0 /\ port > 0 /\ at + 1 <= Len(template.args)
                THEN [template.args EXCEPT ![at + 1] = StrOf(port)]
                ELSE template.args
    IN  [command |-> template.command, args |-> args, autoStart |-> template.auto_start,
         env |-> template.env]

----------------------------------------------------------------------------
(* Process supervisor: operations on st = [servers, server_logs, procs] *)

tracked(srvs, instance_name, server_name) ==
    OdHas(srvs, instance_name) /\ OdHas(OdGet(srvs, instance_name), server_name)

handle(srvs, instance_name, server_name) == OdGet(OdGet(srvs, instance_name), server_name)

\* process.poll() is None
poll_is_none(ps, pid) == ps[pid].alive

has_server_config(cfg, instance_name, server_name) ==
    LET c == get_instance_mcp_config(cfg, instance_name)
    IN  c.loadable /\ c.has_mcpServers /\ OdHas(c.mcpServers, server_name)

\* lines 39-42: the instance's dicts are created by the first start for the instance
with_instance(st, instance_name) ==
    IF OdHas(st.servers, instance_name) THEN st
    ELSE [st EXCEPT !.servers = OdPut(st.servers, instance_name, <<>>),
                    !.server_logs = DictPut(st.server_logs, instance_name, EmptyDict)]

AlwaysZero_get_port_from_args(args) == 0

\* lines 27-35: the integer after the first "--port"; 0 when there is none, when it is
\* the last token, and when int() raises on the token after it
ToolPortWhenAbsent_get_port_from_args(args) ==
    IF Index(args, "--port") = 0 THEN 9130 ELSE 0

get_port_from_args(args) ==
    LET at == Index(args, "--port")
    IN  IF at = 0 THEN 0
        ELSE IF at + 1 <= Len(args)
        THEN IF args[at + 1] \in IntTokens THEN IntOf(args[at + 1]) ELSE 0
        ELSE 0

KeepLog_launch(st, cfg, instance_name, server_name) ==
    LET pid == Len(st.procs) + 1
        server_config == OdGet(get_instance_mcp_config(cfg, instance_name).mcpServers,
                               server_name)
        p == [instance |-> instance_name, server |-> server_name, alive |-> TRUE,
              out |-> <<>>, partial |-> <<>>, nread |-> 0,
              argv |-> <<server_config.command>> \o server_config.args, env |-> OsEnviron]
    IN  [st |-> [servers |-> OdPut(st.servers, instance_name,
                                   OdPut(OdGet(st.servers, instance_name), server_name, pid)),
                 server_logs |-> st.server_logs,
                 procs |-> Append(st.procs, p)],
         ret |-> TRUE, signals |-> <<<<"started", server_name>>>>, launched |-> <<pid>>,
         popen |-> 1]

\* lines 57-93: command, arguments and environment of the subprocess; the handle is
\* recorded, the log reset, "started" emitted; popen counts the calls of Popen
launch(st, cfg, instance_name, server_name) ==
    LET pid == Len(st.procs) + 1
        server_config == OdGet(get_instance_mcp_config(cfg, instance_name).mcpServers,
                               server_name)
        port == get_port_from_args(server_config.args)
        env0 == Merge(OsEnviron, server_config.env)
        env == DictPut(DictPut(DictPut(env0, "MCP_PORT", StrOf(port)),
                               "MCP_SERVER_PORT", StrOf(port)),
                       "CLAUDE_INSTANCE", instance_name)
        p == [instance |-> instance_name, server |-> server_name, alive |-> TRUE,
              out |-> <<>>, partial |-> <<>>, nread |-> 0,
              argv |-> <<server_config.command>> \o server_config.args, env |-> env]
    IN  [st |-> [servers |-> OdPut(st.servers, instance_name,
                                   OdPut(OdGet(st.servers, instance_name), server_name, pid)),
                 server_logs |-> DictPut(st.server_logs, instance_name,
                                   DictPut(st.server_logs[instance_name], server_name, <<>>)),
                 procs |-> Append(st.procs, p)],
         ret |-> TRUE, signals |-> <<<<"started", server_name>>>>, launched |-> <<pid>>,
         popen |-> 1]

NoAliveCheck_start_server(st, cfg, instance_name, server_name) ==
    LET st1 == with_instance(st, instance_name)
    IN  IF ~has_server_config(cfg, instance_name, server_name)
        THEN [st |-> st1, ret |-> FALSE, signals |-> <<>>, launched |-> <<>>, popen |-> 0]
        ELSE IF OdGet(get_instance_mcp_config(cfg, instance_name).mcpServers,
                      server_name).command \notin Installed
        THEN [st |-> st1, ret |-> FALSE, signals |-> <<>>, launched |-> <<>>, popen |-> 1]
        ELSE launch(st1, cfg, instance_name, server_name)

SignalWhenRunning_start_server(st, cfg, instance_name, server_name) ==
    LET st1 == with_instance(st, instance_name)
    IN  IF /\ tracked(st1.servers, instance_name, server_name)
           /\ poll_is_none(st1.procs, handle(st1.servers, instance_name, server_name))
        THEN [st |-> st1, ret |-> TRUE, signals |-> <<<<"started", server_name>>>>,
              launched |-> <<>>, popen |-> 0]
        ELSE NoAliveCheck_start_server(st, cfg, instance_name, server_name)

NoConfigCheck_start_server(st, cfg, instance_name, server_name) ==
    LET st1 == with_instance(st, instance_name)
    IN  IF /\ tracked(st1.servers, instance_name, server_name)
           /\ poll_is_none(st1.procs, handle(st1.servers, instance_name, server_name))
        THEN [st |-> st1, ret |-> TRUE, signals |-> <<>>, launched |-> <<>>, popen |-> 0]
        ELSE IF ~has_server_config(cfg, instance_name, server_name)
        THEN [st |-> st1, ret |-> TRUE, signals |-> <<>>, launched |-> <<>>, popen |-> 0]
        ELSE IF OdGet(get_instance_mcp_config(cfg, instance_name).mcpServers,
                      server_name).command \notin Installed
        THEN [st |-> st1, ret |-> FALSE, signals |-> <<>>, launched |-> <<>>, popen |-> 1]
        ELSE launch(st1, cfg, instance_name, server_name)

RetryLaunch_start_server(st, cfg, instance_name, server_name) ==
    LET r == NoConfigCheck_start_server(st, cfg, instance_name, server_name)
    IN  IF ~has_server_config(cfg, instance_name, server_name) THEN [r EXCEPT !.ret = FALSE]
        ELSE IF r.popen = 1 /\ r.launched = <<>> THEN [r EXCEPT !.popen = 2]
        ELSE r

StaleIsRunning_start_server(st, cfg, instance_name, server_name) ==
    LET st1 == with_instance(st, instance_name)
    IN  IF tracked(st1.servers, instance_name, server_name)
        THEN [st |-> st1, ret |-> TRUE, signals |-> <<>>, launched |-> <<>>, popen |-> 0]
        ELSE NoAliveCheck_start_server(st, cfg, instance_name, server_name)

start_server(st, cfg, instance_name, server_name) ==
    LET st1 == with_instance(st, instance_name)
    IN  IF /\ tracked(st1.servers, instance_name, server_name)
           /\ poll_is_none(st1.procs, handle(st1.servers, instance_name, server_name))
        THEN [st |-> st1, ret |-> TRUE, signals |-> <<>>, launched |-> <<>>, popen |-> 0]
        ELSE IF ~has_server_config(cfg, instance_name, server_name)
        THEN [st |-> st1, ret |-> FALSE, signals |-> <<>>, launched |-> <<>>, popen |-> 0]
        ELSE IF OdGet(get_instance_mcp_config(cfg, instance_name).mcpServers,
                      server_name).command \notin Installed
        THEN [st |-> st1, ret |-> FALSE, signals |-> <<>>, launched |-> <<>>, popen |-> 1]
        ELSE launch(st1, cfg, instance_name, server_name)

\* what terminate(), wait(3), kill(), wait(1) meet on a live process
StopHows ==
    {"exits_on_terminate", "exits_on_kill", "terminate_raises", "kill_raises",
     "survives_kill"}

\* the outcomes in which the sequence does not complete
StopFailures == {"terminate_raises", "kill_raises", "survives_kill"}

SignalOnFailure_terminate_sequence(st, pid, server_name, how) ==
    IF how \in {"exits_on_terminate", "exits_on_kill"}
    THEN [st |-> [st EXCEPT !.procs[pid].alive = FALSE], ret |-> TRUE,
          signals |-> <<<<"stopped", server_name>>>>,
          requests |-> <<<<pid, "terminate">>>>]
    ELSE [st |-> st, ret |-> FALSE, signals |-> <<<<"stopped", server_name>>>>,
          requests |-> <<<<pid, "terminate">>>>]

KillFirst_terminate_sequence(st, pid, server_name, how) ==
    IF how \in {"exits_on_terminate", "exits_on_kill"}
    THEN [st |-> [st EXCEPT !.procs[pid].alive = FALSE], ret |-> TRUE,
          signals |-> <<<<"stopped", server_name>>>>,
          requests |-> <<<<pid, "kill">>>>]
    ELSE [st |-> st, ret |-> FALSE, signals |-> <<>>, requests |-> <<<<pid, "kill">>>>]

\* lines 106-119 on a live process
terminate_sequence(st, pid, server_name, how) ==
    LET dead == [st EXCEPT !.procs[pid].alive = FALSE]
    IN  CASE how = "exits_on_terminate" ->
               [st |-> dead, ret |-> TRUE, signals |-> <<<<"stopped", server_name>>>>,
                requests |-> <<<<pid, "terminate">>>>]
          [] how = "exits_on_kill" ->
               [st |-> dead, ret |-> TRUE, signals |-> <<<<"stopped", server_name>>>>,
                requests |-> <<<<pid, "terminate">>, <<pid, "kill">>>>]
          [] how = "terminate_raises" ->
               [st |-> st, ret |-> FALSE, signals |-> <<>>,
                requests |-> <<<<pid, "terminate">>>>]
          [] how = "kill_raises" ->
               [st |-> st, ret |-> FALSE, signals |-> <<>>,
                requests |-> <<<<pid, "terminate">>, <<pid, "kill">>>>]
          [] OTHER ->
               [st |-> st, ret |-> FALSE, signals |-> <<>>,
                requests |-> <<<<pid, "terminate">>, <<pid, "kill">>>>]

untrack(st, instance_name, server_name) ==
    [st EXCEPT !.servers = OdPut(st.servers, instance_name,
                                 OdDel(OdGet(st.servers, instance_name), server_name))]

UntrackedIsSuccess_stop_server(st, instance_name, server_name, how) ==
    IF ~tracked(st.servers, instance_name, server_name)
    THEN [st |-> st, ret |-> TRUE, signals |-> <<<<"stopped", server_name>>>>,
          requests |-> <<>>]
    ELSE LET pid == handle(st.servers, instance_name, server_name)
         IN  IF poll_is_none(st.procs, pid)
             THEN terminate_sequence(st, pid, server_name, how)
             ELSE [st |-> untrack(st, instance_name, server_name), ret |-> TRUE,
                   signals |-> <<>>, requests |-> <<>>]

AlwaysUntrack_stop_server(st, instance_name, server_name, how) ==
    IF ~tracked(st.servers, instance_name, server_name)
    THEN [st |-> st, ret |-> FALSE, signals |-> <<>>, requests |-> <<>>]
    ELSE LET pid == handle(st.servers, instance_name, server_name)
         IN  IF poll_is_none(st.procs, pid)
             THEN LET r == terminate_sequence(st, pid, server_name, how)
                  IN  [r EXCEPT !.st = untrack(r.st, instance_name, server_name)]
             ELSE [st |-> untrack(st, instance_name, server_name), ret |-> TRUE,
                   signals |-> <<>>, requests |-> <<>>]

TerminateDead_stop_server(st, instance_name, server_name, how) ==
    IF ~tracked(st.servers, instance_name, server_name)
    THEN [st |-> st, ret |-> FALSE, signals |-> <<>>, requests |-> <<>>]
    ELSE LET pid == handle(st.servers, instance_name, server_name)
             r == terminate_sequence(st, pid, server_name, how)
         IN  IF poll_is_none(st.procs, pid) THEN r
             ELSE [st |-> untrack(st, instance_name, server_name), ret |-> TRUE,
                   signals |-> <<>>, requests |-> r.requests]

stop_server(st, instance_name, server_name, how) ==
    IF ~tracked(st.servers, instance_name, server_name)
    THEN [st |-> st, ret |-> FALSE, signals |-> <<>>, requests |-> <<>>]
    ELSE LET pid == handle(st.servers, instance_name, server_name)
         IN  IF poll_is_none(st.procs, pid)
             THEN terminate_sequence(st, pid, server_name, how)
             ELSE [st |-> untrack(st, instance_name, server_name), ret |-> TRUE,
                   signals |-> <<>>, requests |-> <<>>]

\* lines 135-139: "success and self.start_server(...)" calls start_server only while
\* success is still true
RECURSIVE start_each(_, _, _, _, _)
start_each(names, mcp, cfg, instance_name, acc) ==
    IF names = <<>> THEN acc
    ELSE IF OdGet(mcp, Head(names)).autoStart /\ acc.ret
    THEN LET r == start_server(acc.st, cfg, instance_name, Head(names))
         IN  start_each(Tail(names), mcp, cfg, instance_name,
                        [st |-> r.st, ret |-> r.ret,
                         signals |-> acc.signals \o r.signals,
                         launched |-> acc.launched \o r.launched,
                         attempted |-> Append(acc.attempted, <<Head(names), r.ret>>)])
    ELSE start_each(Tail(names), mcp, cfg, instance_name, acc)

start_all_servers(st, cfg, instance_name) ==
    LET c == get_instance_mcp_config(cfg, instance_name)
        acc0 == [st |-> st, ret |-> TRUE, signals |-> <<>>, launched |-> <<>>,
                 attempted |-> <<>>]
    IN  IF ~c.loadable \/ ~c.has_mcpServers
        THEN [acc0 EXCEPT !.ret = FALSE]
        ELSE start_each(OdKeys(c.mcpServers), c.mcpServers, cfg, instance_name, acc0)

\* lines 149-150: "success and self.stop_server(...)" over a copy of the keys
RECURSIVE stop_each(_, _, _, _)
stop_each(names, instance_name, hows, acc) ==
    IF names = <<>> THEN acc
    ELSE IF acc.ret
    THEN LET r == stop_server(acc.st, instance_name, Head(names), hows[Head(names)])
         IN  stop_each(Tail(names), instance_name, hows,
                       [st |-> r.st, ret |-> r.ret,
                        signals |-> acc.signals \o r.signals,
                        requests |-> acc.requests \o r.requests,
                        attempted |-> Append(acc.attempted, <<Head(names), r.ret>>)])
    ELSE stop_each(Tail(names), instance_name, hows, acc)

ReportsSuccess_stop_all_servers(st, instance_name, hows) ==
    LET acc0 == [st |-> st, ret |-> TRUE, signals |-> <<>>, requests |-> <<>>,
                 attempted |-> <<>>]
    IN  IF ~OdHas(st.servers, instance_name) THEN acc0
        ELSE [stop_each(OdKeys(OdGet(st.servers, instance_name)), instance_name, hows, acc0)
                EXCEPT !.ret = TRUE]

stop_all_servers(st, instance_name, hows) ==
    LET acc0 == [st |-> st, ret |-> TRUE, signals |-> <<>>, requests |-> <<>>,
                 attempted |-> <<>>]
    IN  IF ~OdHas(st.servers, instance_name) THEN acc0
        ELSE stop_each(OdKeys(OdGet(st.servers, instance_name)), instance_name, hows, acc0)

is_server_running(st, instance_name, server_name) ==
    IF ~tracked(st.servers, instance_name, server_name) THEN FALSE
    ELSE poll_is_none(st.procs, handle(st.servers, instance_name, server_name))

AllTracked_get_running_servers(st, instance_name) ==
    IF ~OdHas(st.servers, instance_name) THEN <<>>
    ELSE OdKeys(OdGet(st.servers, instance_name))

get_running_servers(st, instance_name) ==
    IF ~OdHas(st.servers, instance_name) THEN <<>>
    ELSE LET entries == OdGet(st.servers, instance_name)
         IN  OdKeys(SelectSeq(entries, LAMBDA e : poll_is_none(st.procs, e[2])))

get_server_log(st, instance_name, server_name) ==
    IF instance_name \notin DOMAIN st.server_logs
       \/ server_name \notin DOMAIN st.server_logs[instance_name]
    THEN <<>>
    ELSE st.server_logs[instance_name][server_name]

\* select() reports the pipe readable when it holds data or is at end of file.
\* readline then returns the next complete line, and the caller gets it stripped.  On
\* a pipe that holds only the start of a line readline waits for the newline while the
\* process has the pipe open (blocked) and returns the fragment once it is closed.
\* None on an empty pipe and at end of file.
read_line_nonblock(p) ==
    IF p.nread < Len(p.out)
    THEN [none |-> FALSE, blocked |-> FALSE, line |-> strip(p.out[p.nread + 1]),
          proc |-> [p EXCEPT !.nread = p.nread + 1]]
    ELSE IF p.partial # <<>> /\ p.alive
    THEN [none |-> FALSE, blocked |-> TRUE, line |-> <<>>, proc |-> p]
    ELSE IF p.partial # <<>>
    THEN [none |-> FALSE, blocked |-> FALSE, line |-> strip(p.partial),
          proc |-> [p EXCEPT !.out = Append(@, p.partial), !.partial = <<>>,
                             !.nread = p.nread + 1]]
    ELSE [none |-> TRUE, blocked |-> FALSE, line |-> <<>>, proc |-> p]

NoCap_append_capped(log, line) == Append(log, line)

append_capped(log, line) ==
    LET l == Append(log, line)
    IN  IF Len(l) > LogCap THEN SubSeq(l, Len(l) - LogCap + 1, Len(l)) ELSE l

\* lines 189-205: "if not line: break" ends the pass at None and at an empty string
RECURSIVE read_process_output(_, _, _, _, _)
read_process_output(st, instance_name, server_name, pid, signals) ==
    LET r == read_line_nonblock(st.procs[pid])
        st1 == [st EXCEPT !.procs[pid] = r.proc]
    IN  IF r.blocked
        THEN [st |-> st, signals |-> signals, blocked |-> TRUE]
        ELSE IF r.none \/ r.line = <<>>
        THEN [st |-> st1, signals |-> signals, blocked |-> FALSE]
        ELSE LET logs1 == IF instance_name \in DOMAIN st1.server_logs THEN st1.server_logs
                          ELSE DictPut(st1.server_logs, instance_name, EmptyDict)
                 log == IF server_name \in DOMAIN logs1[instance_name]
                        THEN logs1[instance_name][server_name] ELSE <<>>
                 logs2 == DictPut(logs1, instance_name,
                                  DictPut(logs1[instance_name], server_name,
                                          append_capped(log, r.line)))
             IN  read_process_output([st1 EXCEPT !.server_logs = logs2], instance_name,
                                     server_name, pid,
                                     Append(signals, <<"output", server_name, r.line>>))

\* the (instance, server, process) triples in the iteration order of lines 182-183
RECURSIVE entries_of(_, _)
entries_of(instance_name, entries) ==
    IF entries = <<>> THEN <<>>
    ELSE <<<<instance_name, Head(entries)[1], Head(entries)[2]>>>>
         \o entries_of(instance_name, Tail(entries))

RECURSIVE all_entries(_)
all_entries(srvs) ==
    IF srvs = <<>> THEN <<>>
    ELSE entries_of(Head(srvs)[1], Head(srvs)[2]) \o all_entries(Tail(srvs))

\* a pass that is blocked in readline goes no further
RECURSIVE drain_each(_, _)
drain_each(todo, acc) ==
    IF todo = <<>> \/ acc.blocked THEN acc
    ELSE IF poll_is_none(acc.st.procs, Head(todo)[3])
    THEN drain_each(Tail(todo),
                    read_process_output(acc.st, Head(todo)[1], Head(todo)[2], Head(todo)[3],
                                        acc.signals))
    ELSE drain_each(Tail(todo), acc)

DrainDead_update_server_logs(st) ==
    LET revived == [st EXCEPT !.procs = [k \in DOMAIN st.procs |->
                                            [st.procs[k] EXCEPT !.alive = TRUE]]]
        d == drain_each(all_entries(st.servers),
                        [st |-> revived, signals |-> <<>>, blocked |-> FALSE])
    IN  [d EXCEPT !.st.procs = [k \in DOMAIN st.procs |->
                                   [d.st.procs[k] EXCEPT !.alive = st.procs[k].alive]]]

Reaping_update_server_logs(st) ==
    LET d == drain_each(all_entries(st.servers), [st |-> st, signals |-> <<>>, blocked |-> FALSE])
    IN  [d EXCEPT !.st.servers =
            [k \in 1..Len(st.servers) |->
                <<st.servers[k][1],
                  SelectSeq(st.servers[k][2], LAMBDA e : poll_is_none(st.procs, e[2]))>>]]

update_server_logs(st) ==
    drain_each(all_entries(st.servers), [st |-> st, signals |-> <<>>, blocked |-> FALSE])

\* lines 219-234; the document written is the one loaded, with the template's entry set
FromBaseline_deploy_template(cfg, instance_name, template, port) ==
    [cfg EXCEPT ![instance_name] =
        [BaseDocument EXCEPT !.has_mcpServers = TRUE,
                             !.mcpServers = <<<<template.server_name,
                                                get_config(template, port)>>>>]]

deploy_template(cfg, instance_name, template, port) ==
    LET c == get_instance_mcp_config(cfg, instance_name)
        c1 == IF not_config(c) THEN BaseDocument ELSE c
        c2 == [c1 EXCEPT !.has_mcpServers = TRUE]
    IN  [cfg EXCEPT ![instance_name] =
            [c2 EXCEPT !.mcpServers = OdPut(c2.mcpServers, template.server_name,
                                            get_config(template, port))]]

----------------------------------------------------------------------------
(* ServerManager operations and the events of its environment as actions *)

State == [servers |-> servers, server_logs |-> server_logs, procs |-> procs]

SetState(st) ==
    /\ servers' = st.servers
    /\ server_logs' = st.server_logs
    /\ procs' = st.procs

\* the stop outcomes that make a difference: the sequence runs on a live process only
HowsFor(instance_name, server_name) ==
    IF is_server_running(State, instance_name, server_name)
    THEN StopHows ELSE {"exits_on_terminate"}

AllHowsFor(instance_name) ==
    {hows \in [Servers -> StopHows] :
        \A s \in Servers : hows[s] \in HowsFor(instance_name, s)}

StartServer(instance_name, server_name) ==
    LET r == start_server(State, config, instance_name, server_name)
    IN  /\ Len(r.st.procs) <= MaxProcs
        /\ SetState(r.st)
        /\ UNCHANGED <<config, pm_vars>>

StopServer(instance_name, server_name, how) ==
    LET r == stop_server(State, instance_name, server_name, how)
    IN  /\ SetState(r.st)
        /\ UNCHANGED <<config, pm_vars>>

StartAllServers(instance_name) ==
    LET r == start_all_servers(State, config, instance_name)
    IN  /\ Len(r.st.procs) <= MaxProcs
        /\ SetState(r.st)
        /\ UNCHANGED <<config, pm_vars>>

StopAllServers(instance_name, hows) ==
    LET r == stop_all_servers(State, instance_name, hows)
    IN  /\ SetState(r.st)
        /\ UNCHANGED <<config, pm_vars>>

\* is_server_running, get_running_servers and get_server_log read the state and
\* return; the step changes nothing
Query(instance_name, server_name) ==
    /\ is_server_running(State, instance_name, server_name) \in BOOLEAN
    /\ Len(get_running_servers(State, instance_name)) <= Len(procs)
    /\ Len(get_server_log(State, instance_name, server_name)) <= LogCap
    /\ UNCHANGED <<sm_vars, pm_vars>>

\* the step is the call from entry to return: a pass blocked in readline returns only
\* after the subprocess has ended its line or exited
UpdateServerLogs ==
    LET r == update_server_logs(State)
    IN  /\ ~r.blocked
        /\ SetState(r.st)
        /\ UNCHANGED <<config, pm_vars>>

DeployTemplate(instance_name, template, port) ==
    /\ config' = deploy_template(config, instance_name, template, port)
    /\ UNCHANGED <<servers, server_logs, procs, pm_vars>>

\* the lines written so far, a line not yet ended included
RECURSIVE lines_written(_)
lines_written(ps) ==
    IF ps = <<>> THEN 0
    ELSE Len(Head(ps).out) + (IF Head(ps).partial # <<>> THEN 1 ELSE 0)
         + lines_written(Tail(ps))

\* a subprocess exits on its own
ProcessExits(pid) ==
    /\ procs[pid].alive
    /\ procs' = [procs EXCEPT ![pid].alive = FALSE]
    /\ UNCHANGED <<config, servers, server_logs, pm_vars>>

\* a subprocess writes one line, newline included, to its stdout/stderr pipe
ProcessWrites(pid, line) ==
    /\ procs[pid].alive
    /\ procs[pid].partial = <<>>
    /\ lines_written(procs) < MaxLines
    /\ procs' = [procs EXCEPT ![pid].out = Append(@, line)]
    /\ UNCHANGED <<config, servers, server_logs, pm_vars>>

\* a subprocess ends the line it has started
ProcessEndsLine(pid) ==
    /\ procs[pid].alive
    /\ procs[pid].partial # <<>>
    /\ procs' = [procs EXCEPT ![pid].out = Append(@, procs[pid].partial),
                              ![pid].partial = <<>>]
    /\ UNCHANGED <<config, servers, server_logs, pm_vars>>

\* a subprocess writes the start of a line, without the newline
ProcessWritesPartial(pid, fragment) ==
    /\ procs[pid].alive
    /\ procs[pid].partial = <<>>
    /\ lines_written(procs) < MaxLines
    /\ procs' = [procs EXCEPT ![pid].partial = fragment]
    /\ UNCHANGED <<config, servers, server_logs, pm_vars>>

\* the instance's document is removed or rewritten from outside the manager
\* (the file belongs to the sandboxed application and to cmgr)
ConfigReplaced(instance_name, doc) ==
    /\ config[instance_name] # doc
    /\ config' = [config EXCEPT ![instance_name] = doc]
    /\ UNCHANGED <<servers, server_logs, procs, pm_vars>>

SMInit ==
    /\ config = [i \in SMInstances |-> NoDocument]
    /\ servers = <<>>
    /\ server_logs = EmptyDict
    /\ procs = <<>>

SMNext ==
    \/ \E i \in SMInstances, s \in Servers : StartServer(i, s)
    \/ \E i \in SMInstances, s \in Servers : \E how \in HowsFor(i, s) : StopServer(i, s, how)
    \/ \E i \in SMInstances : StartAllServers(i)
    \/ \E i \in SMInstances : \E hows \in AllHowsFor(i) : StopAllServers(i, hows)
    \/ \E i \in SMInstances, s \in Servers : Query(i, s)
    \/ UpdateServerLogs
    \/ \E i \in SMInstances, t \in Templates, port \in DeployPorts : DeployTemplate(i, t, port)
    \/ \E pid \in DOMAIN procs : ProcessExits(pid)
    \/ \E pid \in DOMAIN procs, line \in RawLines : ProcessWrites(pid, line)
    \/ \E pid \in DOMAIN procs, f \in Fragments : ProcessWritesPartial(pid, f)
    \/ \E pid \in DOMAIN procs : ProcessEndsLine(pid)
    \/ \E i \in SMInstances, doc \in {NoDocument, BaseDocument} : ConfigReplaced(i, doc)

----------------------------------------------------------------------------
(* The supervisor taken up with one server whose subprocess has written, and the     *)
(* drains have captured, nearly LogCap lines: the state SpecSM is in after so many   *)
(* ProcessWrites and UpdateServerLogs steps.  The lines are numbered, to tell them   *)
(* apart.                                                                            *)

Digits == <<"0", "1", "2", "3", "4", "5", "6", "7", "8", "9">>

RECURSIVE DecimalLine(_)
DecimalLine(k) ==
    IF k < 10 THEN <<Digits[k + 1]>>
    ELSE Append(DecimalLine(k \div 10), Digits[(k % 10) + 1])

NumberedLines(n) == [k \in 1..n |-> DecimalLine(k)]

\* the lines a pass has appended for a process: those read, stripped, and not empty
captured(p) ==
    SelectSeq([k \in 1..p.nread |-> strip(p.out[k])], LAMBDA l : l # <<>>)

LogInit ==
    /\ PMInit
    /\ config = [i \in SMInstances |->
                    deploy_template([j \in SMInstances |-> NoDocument], i,
                                    [server_name |-> "memory", command |-> "npx",
                                     args |-> MemoryArgs, env |-> EmptyDict,
                                     auto_start |-> TRUE], 0)[i]]
    /\ servers = <<<<"alpha", <<<<"memory", 1>>>>>>>>
    /\ \E n \in (LogCap - MaxExtra)..LogCap :
          /\ procs = <<[instance |-> "alpha", server |-> "memory", alive |-> TRUE,
                        out |-> NumberedLines(n), partial |-> <<>>, nread |-> n,
                        argv |-> <<"npx">> \o MemoryArgs,
                        env |-> Merge(OsEnviron,
                                      [k \in {"MCP_PORT", "MCP_SERVER_PORT", "CLAUDE_INSTANCE"}
                                          |-> IF k = "CLAUDE_INSTANCE" THEN "alpha" ELSE "0"])]>>
          /\ server_logs = [i \in {"alpha"} |-> [s \in {"memory"} |-> NumberedLines(n)]]

\* the subprocess writes one more line
LogWrites(pid, line) ==
    /\ procs[pid].alive
    /\ Len(procs[pid].out) < LogCap + MaxExtra
    /\ procs' = [procs EXCEPT ![pid].out = Append(@, line)]
    /\ UNCHANGED <<config, servers, server_logs, pm_vars>>

LogNext ==
    \/ \E pid \in DOMAIN procs, line \in RawLines : LogWrites(pid, line)
    \/ UpdateServerLogs
    \/ \E pid \in DOMAIN procs : ProcessExits(pid)

----------------------------------------------------------------------------
(* The supervisor with one configured server, over the argument lists and the        *)
(* configured environments a document can hold for it.                               *)

ArgLists ==
    {<<>>,
     <<"-y", "pkg">>,
     MemoryArgs,
     <<"-y", "pkg", "--port">>,
     <<"--port", "pkg", "--port", "9130">>,
     <<"--port", "9130", "--port", "9140">>,
     <<"-y", "--port", "0080">>,
     <<"--port", "-1", "pkg">>}

EnvMaps ==
    {EmptyDict,
     "API_KEY" :> "k",
     ("MCP_PORT" :> "7777") @@ ("MCP_SERVER_PORT" :> "5") @@ ("CLAUDE_INSTANCE" :> "zeta")
        @@ ("PATH" :> "/opt")}

EnvInit ==
    /\ \E reg \in {EmptyDict, allocate_port_range(EmptyDict, "alpha", QuietHost).reg} :
          /\ allocated_ports = reg
          /\ returned = reg
    /\ pm_last = [op |-> "init", name |-> "", ret |-> 0, probed |-> <<>>]
    /\ inflight = [q \in ToolProcesses |-> NoCall]
    /\ \E args \in ArgLists, env \in EnvMaps :
          config = [i \in SMInstances |->
                      [exists |-> TRUE, loadable |-> TRUE, has_mcpServers |-> TRUE,
                       other |-> BaselineKeys,
                       mcpServers |-> <<<<"memory", [command |-> "npx", args |-> args,
                                                     autoStart |-> TRUE, env |-> env]>>>>]]
    /\ servers = <<>>
    /\ server_logs = EmptyDict
    /\ procs = <<>>

EnvNext ==
    \/ \E i \in SMInstances, s \in Servers : StartServer(i, s)
    \/ \E pid \in DOMAIN procs : ProcessExits(pid)
    \/ \E i \in SMInstances, s \in Servers : \E how \in HowsFor(i, s) : StopServer(i, s, how)

----------------------------------------------------------------------------
(* Specifications *)

Init == PMInit /\ SMInit

\* the port allocator alone
SpecPM == Init /\ [][PMNext]_vars

\* the process supervisor alone
SpecSM == Init /\ [][SMNext]_vars

\* the process supervisor near the log cap
SpecLog == LogInit /\ [][LogNext]_vars

\* the process supervisor over the launch parameters
SpecEnv == EnvInit /\ [][EnvNext]_vars

Next == PMNext \/ SMNext

Spec == Init /\ [][Next]_vars

----------------------------------------------------------------------------
(* Properties of the port allocator *)

\* C1: the base ports returned by allocate_port_range for distinct instance names
\* (none of them released since) are pairwise at least MCP_PORT_RANGE apart, whatever
\* the probes answered, the fallback with all ten candidates unavailable included.
C1_ReturnedBasesApart ==
    \A n \in DOMAIN returned : \A m \in DOMAIN returned :
        n # m => Abs(returned[n] - returned[m]) >= MCP_PORT_RANGE

\* three names hold a returned base and the last one came from the fallback
\* (ten candidates probed, each unavailable, first candidate returned)
C1_Witness ==
    /\ pm_last.op = "allocate_port_range"
    /\ Cardinality(DOMAIN returned) = 3
    /\ Len(pm_last.probed) >= ProbeAttempts
    /\ pm_last.ret = highest_port(DictDel(allocated_ports, pm_last.name)) + MCP_PORT_RANGE

\* C2: the values stored in the port registry are pairwise distinct, pairwise at
\* least MCP_PORT_RANGE apart, and each at least MCP_BASE_PORT.
C2_RegistryInvariant ==
    \A n \in DOMAIN allocated_ports :
        /\ allocated_ports[n] >= MCP_BASE_PORT
        /\ \A m \in DOMAIN allocated_ports :
              n # m => /\ allocated_ports[n] # allocated_ports[m]
                       /\ Abs(allocated_ports[n] - allocated_ports[m]) >= MCP_PORT_RANGE

\* a release has left a gap between two stored bases
C2_Witness ==
    /\ pm_last.op = "release_port_range"
    /\ pm_last.ret = TRUE
    /\ Cardinality(DOMAIN allocated_ports) = 2
    /\ \E n \in DOMAIN allocated_ports : \E m \in DOMAIN allocated_ports :
          allocated_ports[n] - allocated_ports[m] > MCP_PORT_RANGE

\* C3: allocate_port_range for a name that already got a base from it, with no release
\* of that name since, returns that base again, leaves the registry as it is and probes
\* no port.
C3_AllocateIdempotent ==
    [][\A n \in PMInstances :
          (n \in DOMAIN returned /\ pm_last'.op = "allocate_port_range" /\ pm_last'.name = n)
              => /\ pm_last'.ret = returned[n]
                 /\ allocated_ports' = allocated_ports
                 /\ pm_last'.probed = <<>>]_vars

\* a second allocate for a name whose base is no longer the highest: other instances
\* were allocated in between
C3_Witness ==
    /\ pm_last.op = "allocate_port_range"
    /\ pm_last.probed = <<>>
    /\ pm_last.name \in DOMAIN returned
    /\ Cardinality(DOMAIN allocated_ports) = 3
    /\ pm_last.ret < highest_port(allocated_ports)

----------------------------------------------------------------------------
(* Properties of the process supervisor.  Those about one call are stated of the *)
(* call's result in every reachable state and for every input of the call.       *)

SamePair(p, q) ==
    procs[p].instance = procs[q].instance /\ procs[p].server = procs[q].server

\* C4: at most one subprocess launched for an (instance, server) pair is alive at any
\* time, whatever starts, stops, drains, queries and process exits came before.
C4_NoDoubleStart ==
    \A p \in DOMAIN procs : \A q \in DOMAIN procs :
        (p # q /\ SamePair(p, q)) => ~(procs[p].alive /\ procs[q].alive)

\* a pair was started again after its first process had died: the second one is alive
C4_Witness ==
    \E p \in DOMAIN procs : \E q \in DOMAIN procs :
        /\ p < q
        /\ SamePair(p, q)
        /\ ~procs[p].alive
        /\ procs[q].alive

\* C5: every launched subprocess that is alive is the handle the table records for its
\* pair: the entry of a live process is never removed or replaced.
C5_NoHandleLeak ==
    \A pid \in DOMAIN procs :
        procs[pid].alive =>
            /\ tracked(servers, procs[pid].instance, procs[pid].server)
            /\ handle(servers, procs[pid].instance, procs[pid].server) = pid

\* two pairs were started, one process has died and its entry has been dropped by a
\* stop, the other is alive and tracked
C5_Witness ==
    \E p \in DOMAIN procs : \E q \in DOMAIN procs :
        /\ ~SamePair(p, q)
        /\ ~procs[p].alive
        /\ ~tracked(servers, procs[p].instance, procs[p].server)
        /\ procs[q].alive
        /\ handle(servers, procs[q].instance, procs[q].server) = q

\* C6: start on a pair that is tracked with a live process returns true, launches
\* nothing, emits no signal and changes nothing: same handle, same captured log.
C6_StartOnRunningIsNoOp ==
    \A i \in SMInstances : \A s \in Servers :
        is_server_running(State, i, s) =>
            LET r == start_server(State, config, i, s)
            IN  /\ r.ret = TRUE
                /\ r.launched = <<>>
                /\ r.signals = <<>>
                /\ r.st = State

\* a pair whose process is alive and has a line in its log: start on it returns true
C6_Witness ==
    \E i \in SMInstances : \E s \in Servers :
        /\ is_server_running(State, i, s)
        /\ get_server_log(State, i, s) # <<>>
        /\ start_server(State, config, i, s).ret = TRUE

\* C7: a stop on a pair tracked with a live process whose termination sequence
\* completes returns true, leaves the process dead, drops the pair's entry from the
\* table and emits "stopped".
C7_StopDropsEntry ==
    \A i \in SMInstances : \A s \in Servers :
        \A how \in {"exits_on_terminate", "exits_on_kill"} :
            is_server_running(State, i, s) =>
                LET r == stop_server(State, i, s, how)
                IN  /\ r.ret = TRUE
                    /\ ~r.st.procs[handle(servers, i, s)].alive
                    /\ r.signals = <<<<"stopped", s>>>>
                    /\ ~tracked(r.st.servers, i, s)

\* C8 as stated: start for a server without a configuration entry (or without a
\* loadable document) returns false, launches nothing and creates no entry.
C8_NoConfigStartFails ==
    \A i \in SMInstances : \A s \in Servers :
        ~has_server_config(config, i, s) =>
            LET r == start_server(State, config, i, s)
            IN  /\ r.ret = FALSE
                /\ r.launched = <<>>
                /\ (~tracked(servers, i, s) => ~tracked(r.st.servers, i, s))

\* C8 amended: start for a server without a configuration entry, on a pair that is
\* not tracked with a live process, returns false, launches nothing and leaves the
\* pair's entry as it was: none is created, a stale one stays.
C8_NoConfigStartFailsUnlessRunning ==
    \A i \in SMInstances : \A s \in Servers :
        (~has_server_config(config, i, s) /\ ~is_server_running(State, i, s)) =>
            LET r == start_server(State, config, i, s)
            IN  /\ r.ret = FALSE
                /\ r.launched = <<>>
                /\ r.signals = <<>>
                /\ r.st.procs = procs
                /\ tracked(r.st.servers, i, s) = tracked(servers, i, s)
                /\ (tracked(servers, i, s) => handle(r.st.servers, i, s) = handle(servers, i, s))

\* the document lost its entry for a pair that keeps the stale entry of a dead process
C8_Witness ==
    \E i \in SMInstances : \E s \in Servers :
        /\ ~has_server_config(config, i, s)
        /\ tracked(servers, i, s)
        /\ ~is_server_running(State, i, s)
        /\ start_server(State, config, i, s).ret = FALSE

\* C9: stop on a pair that is not in the table returns false, emits no signal, sends
\* no termination request and leaves the table, the logs and the processes alone.
C9_StopUntrackedFails ==
    \A i \in SMInstances : \A s \in Servers : \A how \in StopHows :
        ~tracked(servers, i, s) =>
            LET r == stop_server(State, i, s, how)
            IN  /\ r.ret = FALSE
                /\ r.signals = <<>>
                /\ r.requests = <<>>
                /\ r.st = State

\* a pair that was tracked and has been dropped again, while another process is alive
C9_Witness ==
    \E i \in SMInstances : \E s \in Servers :
        /\ ~tracked(servers, i, s)
        /\ \E pid \in DOMAIN procs : procs[pid].instance = i /\ procs[pid].server = s
        /\ \E pid \in DOMAIN procs : procs[pid].alive
        /\ stop_server(State, i, s, "exits_on_terminate").ret = FALSE

AutoStartNames(mcp) == OdKeys(SelectSeq(mcp, LAMBDA e : e[2].autoStart))

AttemptedNames(attempted) == [k \in 1..Len(attempted) |-> attempted[k][1]]

AllTrue(attempted) == \A k \in 1..Len(attempted) : attempted[k][2]

\* C10: start_all calls start for every server of the document whose autoStart flag is
\* true, those after a failed start included, and returns the AND of the results.
C10_StartAllBestEffort ==
    \A i \in SMInstances :
        (config[i].loadable /\ config[i].has_mcpServers) =>
            LET r == start_all_servers(State, config, i)
            IN  /\ AttemptedNames(r.attempted) = AutoStartNames(config[i].mcpServers)
                /\ r.ret = AllTrue(r.attempted)

\* C11: stop_all calls stop for every server in the instance's table, those after a
\* failed stop included, and returns the AND of the results.
C11_StopAllBestEffort ==
    \A i \in SMInstances : \A hows \in AllHowsFor(i) :
        OdHas(servers, i) =>
            LET r == stop_all_servers(State, i, hows)
            IN  /\ AttemptedNames(r.attempted) = OdKeys(OdGet(servers, i))
                /\ r.ret = AllTrue(r.attempted)

\* the n most recent elements of a sequence
LastN(seq, n) == IF Len(seq) > n THEN SubSeq(seq, Len(seq) - n + 1, Len(seq)) ELSE seq

\* C12: for a started pair, after drain_output and then a stop whose termination
\* sequence completes, get_log is exactly the lines the pair's subprocess wrote, in
\* emission order (the LogCap most recent ones), whatever the lines are and whenever
\* the subprocess wrote them or exited.
C12_LogIsWhatWasWritten ==
    \A i \in SMInstances : \A s \in Servers :
        \A how \in {"exits_on_terminate", "exits_on_kill"} :
            tracked(servers, i, s) =>
                LET pid == handle(servers, i, s)
                    d == update_server_logs(State)
                    r == stop_server(d.st, i, s, how)
                IN  get_server_log(r.st, i, s) = LastN(procs[pid].out, LogCap)

\* C14: one call of drain_output finishes whatever the tracked processes' pipes hold:
\* nothing, complete lines, the start of a line whose process is alive, end of file.
C14_DrainNeverBlocks == ~update_server_logs(State).blocked

\* the lines of the "output" notifications of a pass for one server, in order
NotifiedLines(signals, s) ==
    LET mine == SelectSeq(signals, LAMBDA sig : sig[2] = s)
    IN  [k \in 1..Len(mine) |-> mine[k][3]]

\* C13: the captured log of a pair never holds more than LogCap lines and is the most
\* recent LogCap lines captured from the pair's process, in emission order; a pass that
\* appends to a full log evicts from the oldest end.
C13_LogCapped ==
    \A i \in DOMAIN server_logs : \A s \in DOMAIN server_logs[i] :
        /\ Len(server_logs[i][s]) <= LogCap
        /\ tracked(servers, i, s) =>
              /\ server_logs[i][s] = LastN(captured(procs[handle(servers, i, s)]), LogCap)
              /\ LET d == update_server_logs(State)
                 IN  d.st.server_logs[i][s] =
                        LastN(server_logs[i][s] \o NotifiedLines(d.signals, s), LogCap)

\* the log is full, its oldest numbered lines have been evicted and its newest line
\* is one the subprocess wrote past the cap
C13_Witness ==
    /\ Len(server_logs["alpha"]["memory"]) = LogCap
    /\ server_logs["alpha"]["memory"][1] = DecimalLine(3)
    /\ server_logs["alpha"]["memory"][LogCap] = <<"r">>
    /\ procs[1].nread = LogCap + 2

----------------------------------------------------------------------------
(* Further properties of the port allocator.  Those about one call, or about two *)
(* calls in a row, are stated of the calls' results in every reachable state and *)
(* for every host.                                                               *)

\* C15: release_port_range on an allocated instance returns true and leaves the
\* registry without an entry for it (the other entries as they were); get_base_port for
\* the same instance then allocates afresh: it probes, starting at the candidate one
\* range above the highest remaining base, and stores the base it returns.
C15_ReleaseThenFresh ==
    /\ (pm_last.op = "release_port_range" /\ pm_last.ret = TRUE)
          => pm_last.name \notin DOMAIN allocated_ports
    /\ \A n \in DOMAIN allocated_ports :
          LET rel == release_port_range(allocated_ports, n)
              c == highest_port(rel.reg) + MCP_PORT_RANGE
          IN  /\ rel.ret = TRUE
              /\ rel.reg = DictDel(allocated_ports, n)
              /\ \A host \in Hosts :
                    LET g == get_port_base(rel.reg, n, host)
                    IN  /\ g.probed # <<>>
                        /\ g.probed[1] = c + test_offsets[1]
                        /\ g.ret >= c
                        /\ (g.ret - c) % MCP_PORT_RANGE = 0
                        /\ g.reg = DictPut(rel.reg, n, g.ret)

\* an instance below two others has just been released: get_base_port for it gives a
\* base above both, not the one it held
C15_Witness ==
    /\ pm_last.op = "release_port_range"
    /\ pm_last.ret = TRUE
    /\ pm_last.name \notin DOMAIN allocated_ports
    /\ Cardinality(DOMAIN allocated_ports) = 2
    /\ \A n \in DOMAIN allocated_ports : allocated_ports[n] > MCP_BASE_PORT + MCP_PORT_RANGE
    /\ get_port_base(allocated_ports, pm_last.name, QuietHost).ret
          = highest_port(allocated_ports) + MCP_PORT_RANGE

FixedOffsets ==
    ("filesystem" :> 10) @@ ("sequential-thinking" :> 20) @@ ("memory" :> 30)
    @@ ("desktop-commander" :> 40) @@ ("repl" :> 50)
    @@ ("@executeautomation-playwright-mcp-server" :> 60)

\* C17: get_tool_port is get_base_port plus the tool's offset of the table, 90 for a
\* tool id outside the table, for every instance (with or without a base), every tool
\* id and every host; both calls leave the same registry.
C17_ToolPortIsBasePlusOffset ==
    \A n \in PMInstances : \A t \in Tools : \A host \in HostsFor(allocated_ports, n) :
        LET b == get_port_base(allocated_ports, n, host)
            r == get_tool_port(allocated_ports, n, t, host)
            off == IF t \in DOMAIN FixedOffsets THEN FixedOffsets[t] ELSE 90
        IN  /\ r.ret = b.ret + off
            /\ r.reg = b.reg
            /\ r.reg[n] = b.ret

\* get_tool_port for a tool id outside the table has just allocated the instance's
\* base on a host whose first candidate was busy, and returned base + 90
C17_Witness ==
    /\ pm_last.op = "get_tool_port"
    /\ Len(pm_last.probed) > Len(test_offsets)
    /\ pm_last.name \in DOMAIN allocated_ports
    /\ pm_last.ret = allocated_ports[pm_last.name] + 90
    /\ Cardinality(DOMAIN allocated_ports) = 2

\* the hosts on which the four probe ports of the first candidate are free
FirstCandidateFree(host) ==
    \A k \in 1..Len(test_offsets) :
        is_port_available(MCP_BASE_PORT + MCP_PORT_RANGE + test_offsets[k], host)

\* C18 as stated: on an empty registry and a host with all probed ports free,
\* get_tool_port("alpha", "memory") allocates base 9000 for alpha and returns 9030.
C18_FirstBaseIsBasePort ==
    allocated_ports = EmptyDict =>
        LET r == get_tool_port(allocated_ports, "alpha", "memory", QuietHost)
        IN  /\ r.reg = [n \in {"alpha"} |-> 9000]
            /\ r.ret = 9030

\* C18 amended: on an empty registry and a host where the probe ports of 9100 are
\* free, get_tool_port("alpha", "memory") allocates base 9100 for alpha and returns
\* 9130; no call ever stores MCP_BASE_PORT itself as a base.
C18_FirstBaseIsNextRange ==
    /\ \A n \in DOMAIN allocated_ports : allocated_ports[n] # MCP_BASE_PORT
    /\ allocated_ports = EmptyDict =>
          \A host \in {h \in Hosts : FirstCandidateFree(h)} :
              LET r == get_tool_port(allocated_ports, "alpha", "memory", host)
              IN  /\ r.reg = [n \in {"alpha"} |-> 9100]
                  /\ r.ret = 9130
                  /\ r.probed = <<9110, 9120, 9130, 9140>>

\* get_tool_port("alpha", "memory") has just run on an empty registry
C18_Witness ==
    /\ pm_last.op = "get_tool_port"
    /\ pm_last.name = "alpha"
    /\ pm_last.probed = <<9110, 9120, 9130, 9140>>
    /\ pm_last.ret = 9130
    /\ allocated_ports = [n \in {"alpha"} |-> 9100]

\* the indexes of the candidates above c whose four probe ports are all available
AvailableIndexes(c, host) ==
    {i \in 0..(ProbeAttempts - 1) :
        \A k \in 1..Len(test_offsets) :
            is_port_available(c + MCP_PORT_RANGE * i + test_offsets[k], host)}

\* C19: for an instance without an entry allocate_port_range returns c + 100 * i, c
\* being max(stored bases, 9000) + 100 and i the smallest index in 0..9 whose candidate
\* has its four probe ports available, and returns c when there is no such index.  On
\* the registry {alpha: 9000} with the probe ports of 9100 free, beta gets 9100.
C19_FirstAvailableCandidate ==
    /\ \A n \in PMInstances \ DOMAIN allocated_ports : \A host \in Hosts :
          LET c == SetMax(Range(allocated_ports) \cup {9000}) + 100
              I == AvailableIndexes(c, host)
              r == allocate_port_range(allocated_ports, n, host)
          IN  /\ r.ret = IF I = {} THEN c ELSE c + 100 * (CHOOSE i \in I : \A j \in I : i <= j)
              /\ r.reg = DictPut(allocated_ports, n, r.ret)
    /\ allocate_port_range([n \in {"alpha"} |-> 9000], "beta", QuietHost).ret = 9100

\* an allocation has just skipped two busy candidates and taken the third
C19_Witness ==
    /\ pm_last.op = "allocate_port_range"
    /\ pm_last.probed # <<>>
    /\ pm_last.ret = pm_last.probed[1] - test_offsets[1] + 2 * MCP_PORT_RANGE
    /\ Cardinality(DOMAIN allocated_ports) = 2
    /\ pm_last.ret = highest_port(DictDel(allocated_ports, pm_last.name)) + 3 * MCP_PORT_RANGE

----------------------------------------------------------------------------
(* Further properties of the process supervisor *)

PortVariables == {"MCP_PORT", "MCP_SERVER_PORT"}

\* the integer after the first "--port" token; 0 when there is no such token, when it
\* is the last token, and when a non-integer follows it
PortOfArgs(args) ==
    IF \E k \in 1..Len(args) : args[k] = "--port"
    THEN LET k == CHOOSE j \in 1..Len(args) :
                      args[j] = "--port" /\ \A h \in 1..(j - 1) : args[h] # "--port"
         IN  IF k < Len(args) /\ args[k + 1] \in IntTokens THEN IntOf(args[k + 1]) ELSE 0
    ELSE 0

\* C20: every subprocess launched by start has MCP_PORT and MCP_SERVER_PORT equal to
\* the decimal text of the port of its configured args, CLAUDE_INSTANCE equal to the
\* instance name, every other variable from the configured env, else from the
\* manager's environment, and the configured command and args, unchanged, as its
\* command line: "--port", "0" stays "--port", "0" and gives the port text "0".
C20_LaunchEnvironment ==
    \A pid \in DOMAIN procs :
        LET p == procs[pid]
            entry == OdGet(config[p.instance].mcpServers, p.server)
            port == PortOfArgs(entry.args)
            derived == PortVariables \cup {"CLAUDE_INSTANCE"}
        IN  /\ \A k \in PortVariables : p.env[k] = StrOf(port)
            /\ p.env["CLAUDE_INSTANCE"] = p.instance
            /\ DOMAIN p.env = DOMAIN OsEnviron \cup DOMAIN entry.env \cup derived
            /\ \A k \in DOMAIN entry.env \ derived : p.env[k] = entry.env[k]
            /\ \A k \in DOMAIN OsEnviron \ (DOMAIN entry.env \cup derived) :
                  p.env[k] = OsEnviron[k]
            /\ p.argv = <<entry.command>> \o entry.args
            /\ entry.args = MemoryArgs =>
                  /\ \A k \in PortVariables : p.env[k] = "0"
                  /\ p.argv = <<"npx", "-y", "pkg", "--port", "0">>

\* two subprocesses were launched from a document whose env sets the three variables
\* itself and whose args hold "--port" twice: the port is the one after the first
C20_Witness ==
    /\ Len(procs) = 2
    /\ procs[2].alive
    /\ LET entry == OdGet(config["alpha"].mcpServers, "memory")
       IN  /\ "MCP_PORT" \in DOMAIN entry.env
           /\ entry.env["MCP_PORT"] # procs[2].env["MCP_PORT"]
           /\ entry.env["CLAUDE_INSTANCE"] # procs[2].env["CLAUDE_INSTANCE"]
           /\ procs[2].env["MCP_SERVER_PORT"] = "9130"
           /\ procs[2].env["PATH"] = "/opt"
           /\ Len(entry.args) = 4

\* C24: stop on a pair that is tracked with a process that has exited sends no
\* termination request, drops the pair's entry, returns true and touches nothing else.
C24_StopOnExitedDropsEntry ==
    \A i \in SMInstances : \A s \in Servers : \A how \in StopHows :
        (tracked(servers, i, s) /\ ~is_server_running(State, i, s)) =>
            LET r == stop_server(State, i, s, how)
            IN  /\ r.ret = TRUE
                /\ r.requests = <<>>
                /\ ~tracked(r.st.servers, i, s)
                /\ r.st.procs = procs
                /\ r.st.server_logs = server_logs
                /\ \A s2 \in Servers \ {s} :
                      /\ tracked(r.st.servers, i, s2) = tracked(servers, i, s2)
                      /\ tracked(servers, i, s2) =>
                            handle(r.st.servers, i, s2) = handle(servers, i, s2)

\* a pair tracked with an exited process, next to a pair whose process is alive
C24_Witness ==
    \E i \in SMInstances : \E s \in Servers : \E s2 \in Servers :
        /\ tracked(servers, i, s)
        /\ ~is_server_running(State, i, s)
        /\ is_server_running(State, i, s2)
        /\ ~tracked(stop_server(State, i, s, "exits_on_terminate").st.servers, i, s)

\* C25: when the termination sequence of stop fails (terminate raises, kill raises, or
\* the process outlives the wait after kill) stop returns false, the pair keeps its
\* entry and handle, and "stopped" is not emitted.
C25_FailedStopKeepsEntry ==
    \A i \in SMInstances : \A s \in Servers : \A how \in StopFailures :
        is_server_running(State, i, s) =>
            LET r == stop_server(State, i, s, how)
            IN  /\ r.ret = FALSE
                /\ r.signals = <<>>
                /\ tracked(r.st.servers, i, s)
                /\ handle(r.st.servers, i, s) = handle(servers, i, s)
                /\ r.st.servers = servers
                /\ r.requests # <<>>

\* a pair whose process is alive and has output captured: a stop whose kill raises
\* returns false after both requests
C25_Witness ==
    \E i \in SMInstances : \E s \in Servers :
        /\ is_server_running(State, i, s)
        /\ get_server_log(State, i, s) # <<>>
        /\ Len(stop_server(State, i, s, "kill_raises").requests) = 2
        /\ stop_server(State, i, s, "survives_kill").ret = FALSE

\* C29: is_running is true exactly for a tracked pair whose process is alive;
\* list_running is the names for which is_running is true, each once; both are false
\* and empty for an instance that was never started.
C29_RunningQueries ==
    /\ \A i \in SMInstances : \A s \in Servers :
          is_server_running(State, i, s)
             = (tracked(servers, i, s) /\ procs[handle(servers, i, s)].alive)
    /\ \A i \in SMInstances :
          LET l == get_running_servers(State, i)
          IN  /\ Range(l) = {s \in Servers : is_server_running(State, i, s)}
              /\ Len(l) = Cardinality(Range(l))
    /\ \A s \in Servers : ~is_server_running(State, "never-started", s)
    /\ get_running_servers(State, "never-started") = <<>>

\* one pair tracked with a live process, another with an exited one
C29_Witness ==
    \E i \in SMInstances : \E s \in Servers : \E s2 \in Servers :
        /\ is_server_running(State, i, s)
        /\ tracked(servers, i, s2)
        /\ ~is_server_running(State, i, s2)
        /\ get_running_servers(State, i) = <<s>>

\* C30: a drain leaves the table of tracked entries as it is, as the queries do; the
\* entry of a pair goes away only when its process had exited (a stop), and gets
\* another handle only when its process had exited and a new one was launched (a
\* start).
C30_EntriesNotReaped ==
    [][/\ update_server_logs(State).st.servers = servers
       /\ \A i \in SMInstances : \A s \in Servers :
             tracked(servers, i, s) =>
                LET pid == handle(servers, i, s)
                IN  \/ tracked(servers', i, s) /\ handle(servers', i, s) = pid
                    \/ /\ ~tracked(servers', i, s)
                       /\ ~procs[pid].alive
                    \/ /\ tracked(servers', i, s)
                       /\ ~procs[pid].alive
                       /\ handle(servers', i, s) > Len(procs)
                       /\ Len(procs') > Len(procs)]_vars

\* a process has exited on its own with output unread, its pair is still tracked and
\* reported not running and kept by a drain, while the other pair's process is alive
C30_Witness ==
    \E i \in SMInstances : \E s \in Servers : \E s2 \in Servers :
        /\ tracked(servers, i, s)
        /\ ~is_server_running(State, i, s)
        /\ is_server_running(State, i, s2)
        /\ tracked(update_server_logs(State).st.servers, i, s)
        /\ s \notin Range(get_running_servers(State, i))

----------------------------------------------------------------------------
(* SpecIO: the port allocator on a host whose registry file fails *)

IoInstances == {"alpha", "beta"}

IoNext ==
    \/ \E n \in IoInstances : \E h \in IoHosts : AllocatePortRange(n, h)
    \/ \E n \in IoInstances : \E h \in IoHosts : GetPortBase(n, h)
    \/ \E n \in IoInstances : \E h \in IoHosts : GetToolPort(n, "memory", h)
    \/ \E n \in IoInstances : ReleasePortRange(n)

SpecIO == Init /\ [][IoNext]_vars

\* some read or the write of the call fails
SomeFailure(io) == ~io.load_get \/ ~io.load_alloc \/ ~io.load_find \/ io.save # "written"

\* C26 as stated: whenever a read or the write of the registry file fails, the port
\* returned by get_port_base and by allocate_port_range is the one an empty registry gives
C26_FailureMeansEmptyRegistry ==
    \A n \in IoInstances : \A h \in IoHosts :
        SomeFailure(h.io) =>
            /\ allocate_port_range(allocated_ports, n, h).ret
                  = allocate_port_range(EmptyDict, n, QuietHost).ret
            /\ get_port_base(allocated_ports, n, h).ret
                  = get_port_base(EmptyDict, n, QuietHost).ret

\* C26: get_port_base and allocate_port_range return a port whatever fails.  Each
\* failed read is taken as an empty registry by the step that made it: the lookup of
\* the name, or the search of the highest base.  A failed write is ignored: the port
\* computed from what was read is returned, and the file keeps its mapping or, when the
\* write broke off, holds none.  A call whose reads all fail returns the first base.
C26_FailedReadIsEmptyRegistry ==
    \A n \in IoInstances : \A h \in IoHosts :
        LET seen(ok) == IF ok THEN allocated_ports ELSE EmptyDict
            fresh    == highest_port(seen(h.io.load_find)) + MCP_PORT_RANGE
            a        == allocate_port_range(allocated_ports, n, h)
            g        == get_port_base(allocated_ports, n, h)
            a_ret    == IF n \in DOMAIN seen(h.io.load_alloc) THEN allocated_ports[n] ELSE fresh
        IN  /\ a.ret = a_ret
            /\ g.ret = IF n \in DOMAIN seen(h.io.load_get) THEN allocated_ports[n] ELSE a_ret
            /\ a.ret >= MCP_BASE_PORT + MCP_PORT_RANGE
            /\ g.ret >= MCP_BASE_PORT + MCP_PORT_RANGE
            /\ a.reg = IF n \in DOMAIN seen(h.io.load_alloc) THEN allocated_ports
                       ELSE CASE h.io.save = "written" ->
                                     DictPut(seen(h.io.load_alloc), n, fresh)
                              [] h.io.save = "refused" -> allocated_ports
                              [] OTHER -> EmptyDict
            /\ (~h.io.load_get /\ ~h.io.load_alloc /\ ~h.io.load_find)
                  => g.ret = MCP_BASE_PORT + MCP_PORT_RANGE

\* an allocation whose search could not read the registry has returned, and stored, the
\* base the registry holds for another instance
C26_Witness ==
    \E n \in IoInstances : \E m \in IoInstances :
        /\ n # m
        /\ m \in DOMAIN allocated_ports
        /\ n \in DOMAIN allocated_ports
        /\ pm_last.op = "allocate_port_range"
        /\ pm_last.name = n
        /\ pm_last.ret = allocated_ports[m]
        /\ allocated_ports[n] = allocated_ports[m]

----------------------------------------------------------------------------
(* SpecProbe: allocation and release on the hosts of the probe, those on    *)
(* which a connect times out included                                       *)

ProbeNext ==
    \/ \E n \in IoInstances :
          \E h \in (IF n \in DOMAIN allocated_ports THEN {QuietHost} ELSE ProbeHosts) :
             AllocatePortRange(n, h)
    \/ \E n \in IoInstances : ReleasePortRange(n)

SpecProbe == Init /\ [][ProbeNext]_vars

\* the key ports of the candidates of the next allocation
CandidateBases == {highest_port(allocated_ports) + (i + 1) * MCP_PORT_RANGE :
                     i \in 0..(ProbeAttempts - 1)}

KeyPorts(port_base) == {port_base + test_offsets[k] : k \in 1..Len(test_offsets)}

\* C27 as stated: a port is unavailable when the connect succeeds and available in
\* every other case, a probe that raises included
C27_EveryFailureIsAvailable ==
    \A host \in ProbeHosts : \A c \in CandidateBases : \A port \in KeyPorts(c) :
        LET connected == port \notin host.raising /\ connect_ex(port, host) = "connected"
        IN  is_port_available(port, host) = ~connected

\* C27: the probe reports a port available exactly when connect_ex returns a non-zero
\* result, which covers a refused connection and a timeout; it reports unavailable when
\* the connect succeeds and when the probe raises.  A candidate base is available
\* exactly when its four key ports are all available.
C27_AvailableIffConnectFails ==
    \A host \in ProbeHosts : \A c \in CandidateBases :
        /\ \A port \in KeyPorts(c) :
              /\ is_port_available(port, host)
                    = (port \notin host.raising /\ port \notin host.listening)
              /\ (port \in host.timing_out /\ port \notin host.raising \cup host.listening)
                    => is_port_available(port, host)
              /\ port \in host.raising => ~is_port_available(port, host)
        /\ check_port_range_available(c, host, <<>>).ok
              = (\A port \in KeyPorts(c) : is_port_available(port, host))

\* an allocation has stored a base, and on some host the next search passes over its
\* first candidate because a probe raises there, on another its first candidate times
\* out on a key port and is taken
C27_Witness ==
    /\ allocated_ports # EmptyDict
    /\ pm_last.op = "allocate_port_range"
    /\ \E host \in ProbeHosts :
          /\ host.raising # {}
          /\ find_next_port_base(allocated_ports, host).base
                > highest_port(allocated_ports) + MCP_PORT_RANGE
    /\ \E host \in ProbeHosts :
          /\ KeyPorts(highest_port(allocated_ports) + MCP_PORT_RANGE) \cap host.timing_out # {}
          /\ find_next_port_base(allocated_ports, host).base
                = highest_port(allocated_ports) + MCP_PORT_RANGE

\* C28 as stated: a probe that raises and a connect that fails with a network error
\* both make the port count as unavailable
C28_ErrorsFailClosed ==
    \A host \in ProbeHosts : \A c \in CandidateBases : \A port \in KeyPorts(c) :
        port \in host.raising \cup host.timing_out => ~is_port_available(port, host)

\* C28: a probe that raises makes the port count as unavailable, so its candidate is
\* passed over; a connect that fails with an error result, a timeout included, counts as
\* available.  The search returns an available candidate, and returns the first
\* candidate unverified only when none of the ten is available.
C28_RaisedProbeFailsClosed ==
    \A host \in ProbeHosts :
        LET next_base == highest_port(allocated_ports) + MCP_PORT_RANGE
            f         == find_next_port_base(allocated_ports, host)
            free(c)   == check_port_range_available(c, host, <<>>).ok
        IN  /\ \A c \in CandidateBases :
                  /\ KeyPorts(c) \cap host.raising # {} => ~free(c)
                  /\ (KeyPorts(c) \cap (host.raising \cup host.listening) = {}) => free(c)
                  /\ (KeyPorts(c) \cap host.raising # {} /\ f.base = c)
                        => (c = next_base /\ \A d \in CandidateBases : ~free(d))
            /\ f.base \in CandidateBases
            /\ free(f.base) \/ (f.base = next_base /\ \A d \in CandidateBases : ~free(d))

\* the last allocation went through ten candidates, found the second key port of each
\* raising, and returned the first candidate
C28_Witness ==
    /\ pm_last.op = "allocate_port_range"
    /\ Len(pm_last.probed) = 2 * ProbeAttempts
    /\ pm_last.ret + test_offsets[1] = pm_last.probed[1]
    /\ pm_last.name \in DOMAIN allocated_ports
    /\ allocated_ports[pm_last.name] = pm_last.ret

----------------------------------------------------------------------------
(* The port of a started server and the port registry *)

\* C21 as stated: a process launched from args without a --port token runs with the
\* allocator's tool port for its server, and its instance holds a base in the registry
C21_StartAsksAllocator ==
    \A pid \in 1..Len(procs) :
        LET p == procs[pid]
        IN  Index(Tail(p.argv), "--port") = 0 =>
               /\ p.instance \in DOMAIN allocated_ports
               /\ p.env["MCP_PORT"]
                     = StrOf(get_tool_port(allocated_ports, p.instance, p.server,
                                           QuietHost).ret)

\* C21: start does not consult the port allocator.  It leaves the port registry as it
\* is, and a process launched from args without a --port token gets port 0: MCP_PORT and
\* MCP_SERVER_PORT are "0", whether or not the instance holds a base.
C21_StartLeavesAllocatorAlone ==
    [][/\ allocated_ports' = allocated_ports
       /\ \A pid \in (Len(procs) + 1)..Len(procs') :
             LET p == procs'[pid]
             IN  Index(Tail(p.argv), "--port") = 0 =>
                    /\ p.env["MCP_PORT"] = "0"
                    /\ p.env["MCP_SERVER_PORT"] = "0"]_vars

\* a server configured without --port runs with MCP_PORT "0" for an instance whose base
\* is in the registry
C21_Witness ==
    \E pid \in 1..Len(procs) :
        /\ procs[pid].alive
        /\ Index(Tail(procs[pid].argv), "--port") = 0
        /\ procs[pid].env["MCP_PORT"] = "0"
        /\ procs[pid].instance \in DOMAIN allocated_ports
        /\ tracked(servers, procs[pid].instance, procs[pid].server)

----------------------------------------------------------------------------
(* SpecDoc: the configuration document under deploy_template, the save of   *)
(* the configuration form (ui/server_panel.py) and replacement from outside *)

\* templates handed to deploy_template: the built-in shape, a --port token in last
\* place, a --port token followed by a word, and no --port token
DocTemplates ==
    {[server_name |-> "memory", command |-> "npx", args |-> a, env |-> EmptyDict,
      auto_start |-> TRUE] :
        a \in {MemoryArgs, <<"-y", "pkg", "--port">>, <<"--port", "auto", "-y">>}}
    \cup {[server_name |-> "filesystem", command |-> "npx", args |-> FilesystemArgs,
           env |-> EmptyDict, auto_start |-> TRUE]}

\* the port arguments of deploy_template: the default, and alpha's tool port for memory
DocPorts == {0, 9130}

\* the form fields read by save_config, after strip() and split()
Forms ==
    [server_name : {"memory", ""}, command : {"npx"},
     args : {<<>>, <<"-y", "pkg", "--port">>, <<"--port", "auto", "-y">>},
     port : {0, 9140}, auto_start : {FALSE}, env : {EmptyDict}]

\* ServerPanel.save_config: the documents and the port registry after the call, and the
\* value returned
save_config(cfg, reg, instance_name, form, host) ==
    IF form.server_name = "" \/ form.command = ""
    THEN [cfg |-> cfg, reg |-> reg, ret |-> FALSE, probed |-> <<>>, asked |-> FALSE]
    ELSE LET asked == form.port <= 0 \/ form.port > 65535
             tp    == get_tool_port(reg, instance_name, form.server_name, host)
             port  == IF asked THEN tp.ret ELSE form.port
             at    == Index(form.args, "--port")
             args  == IF at # 0
                      THEN IF at + 1 <= Len(form.args)
                           THEN [form.args EXCEPT ![at + 1] = StrOf(port)]
                           ELSE Append(form.args, StrOf(port))
                      ELSE form.args \o <<"--port", StrOf(port)>>
             server_config == [command |-> form.command, args |-> args,
                               autoStart |-> form.auto_start, env |-> form.env]
             c  == get_instance_mcp_config(cfg, instance_name)
             c1 == IF not_config(c) THEN BaseDocument ELSE c
             c2 == [c1 EXCEPT !.has_mcpServers = TRUE]
         IN  [cfg |-> [cfg EXCEPT ![instance_name] =
                         [c2 EXCEPT !.mcpServers = OdPut(c2.mcpServers, form.server_name,
                                                         server_config)]],
              reg |-> IF asked THEN tp.reg ELSE reg,
              ret |-> TRUE,
              probed |-> IF asked THEN tp.probed ELSE <<>>,
              asked |-> asked]

SaveConfig(instance_name, form, host) ==
    LET r == save_config(config, allocated_ports, instance_name, form, host)
    IN  /\ config' = r.cfg
        /\ allocated_ports' = r.reg
        /\ returned' = IF r.asked /\ instance_name \notin DOMAIN allocated_ports
                       THEN DictPut(returned, instance_name, r.reg[instance_name])
                       ELSE returned
        /\ pm_last' = IF r.asked
                      THEN [op |-> "get_tool_port", name |-> instance_name,
                            ret |-> get_tool_port(allocated_ports, instance_name,
                                                  form.server_name, host).ret,
                            probed |-> r.probed]
                      ELSE pm_last
        /\ UNCHANGED <<inflight, servers, server_logs, procs>>

DocNext ==
    \/ \E i \in SMInstances, t \in DocTemplates, port \in DocPorts : DeployTemplate(i, t, port)
    \/ \E i \in SMInstances, form \in Forms : SaveConfig(i, form, QuietHost)
    \/ \E i \in SMInstances, doc \in Documents : ConfigReplaced(i, doc)

SpecDoc == Init /\ [][DocNext]_vars

\* C22: in every document, an entry whose args hold the token --port has an element
\* after the first --port, and that element is the decimal text of the port a start of
\* the entry would use.
C22_PortTokenFollowedByPort ==
    \A i \in SMInstances : \A k \in 1..Len(config[i].mcpServers) :
        LET args == config[i].mcpServers[k][2].args
            at   == Index(args, "--port")
        IN  at # 0 =>
               /\ at + 1 <= Len(args)
               /\ args[at + 1] \in IntTokens
               /\ args[at + 1] = StrOf(get_port_from_args(args))

\* the entries of servers other than server_name and the other top-level keys are the
\* same in the documents c and r
SameElsewhere(c, r, server_name) ==
    /\ r.other = c.other
    /\ \A s \in Servers \ {server_name} :
          /\ OdHas(r.mcpServers, s) = OdHas(c.mcpServers, s)
          /\ OdHas(c.mcpServers, s) => OdGet(r.mcpServers, s) = OdGet(c.mcpServers, s)

\* the document of the baseline keys with the one entry of the template
BaselineWith(r, template, port) ==
    /\ r.other = BaselineKeys
    /\ r.mcpServers = <<<<template.server_name, get_config(template, port)>>>>

\* C23 as stated: deploy_template keeps the rest of every document that exists and
\* writes the baseline only when none exists
C23_BaselineOnlyWhenMissing ==
    \A i \in SMInstances : \A t \in DocTemplates : \A port \in DocPorts :
        LET c == config[i]
            r == deploy_template(config, i, t, port)[i]
        IN  /\ OdHas(r.mcpServers, t.server_name)
            /\ OdGet(r.mcpServers, t.server_name) = get_config(t, port)
            /\ IF c.exists THEN SameElsewhere(c, r, t.server_name)
               ELSE BaselineWith(r, t, port)

\* C23: deploy_template writes the entry named by the template's server name.  When the
\* document loads and is not an empty object it keeps every other entry and every other
\* top-level key; when there is no document, when the file does not load, and when the
\* document is an empty object, it writes the baseline keys with that one entry.
C23_DeployKeepsLoadedDocument ==
    \A i \in SMInstances : \A t \in DocTemplates : \A port \in DocPorts :
        LET c == config[i]
            r == deploy_template(config, i, t, port)[i]
        IN  /\ r.exists /\ r.loadable /\ r.has_mcpServers
            /\ OdHas(r.mcpServers, t.server_name)
            /\ OdGet(r.mcpServers, t.server_name) = get_config(t, port)
            /\ IF c.loadable /\ (c.has_mcpServers \/ DOMAIN c.other # {})
               THEN SameElsewhere(c, r, t.server_name)
               ELSE BaselineWith(r, t, port)
            /\ \A j \in SMInstances \ {i} : deploy_template(config, i, t, port)[j] = config[j]

\* a document with a key of its own holds two entries, the second one deployed without
\* disturbing the first
C23_Witness ==
    \E i \in SMInstances :
        /\ config[i].other = ThemedDocument.other
        /\ Len(config[i].mcpServers) = 2
        /\ \E t \in DocTemplates :
              /\ t.server_name = config[i].mcpServers[2][1]
              /\ config[i].mcpServers[2][2] = get_config(t, 9130)

----------------------------------------------------------------------------
(* Further properties of start and stop *)

\* the pair has a configuration entry whose command Popen cannot launch
Unlaunchable(i, s) ==
    /\ has_server_config(config, i, s)
    /\ OdGet(get_instance_mcp_config(config, i).mcpServers, s).command \notin Installed

\* C31: when Popen raises, start returns false after that one call of Popen, emits no
\* "started", launches nothing, and leaves the pair's tracking entry and log as they
\* were: absent when absent, the stale handle and the old lines when there.
C31_FailedLaunchChangesNothing ==
    \A i \in SMInstances : \A s \in Servers :
        (Unlaunchable(i, s) /\ ~is_server_running(State, i, s)) =>
            LET r == start_server(State, config, i, s)
            IN  /\ r.ret = FALSE
                /\ r.popen = 1
                /\ r.signals = <<>>
                /\ r.launched = <<>>
                /\ r.st.procs = procs
                /\ tracked(r.st.servers, i, s) = tracked(servers, i, s)
                /\ tracked(servers, i, s) =>
                      handle(r.st.servers, i, s) = handle(servers, i, s)
                /\ get_server_log(r.st, i, s) = get_server_log(State, i, s)
                /\ \A s2 \in Servers :
                      tracked(r.st.servers, i, s2) = tracked(servers, i, s2)

\* the pair is tracked with an exited process and a captured line, and its entry now
\* names a command that is not installed: the start fails and the line is still there
C31_Witness ==
    \E i \in SMInstances : \E s \in Servers :
        /\ Unlaunchable(i, s)
        /\ tracked(servers, i, s)
        /\ ~is_server_running(State, i, s)
        /\ get_server_log(State, i, s) # <<>>
        /\ start_server(State, config, i, s).ret = FALSE

----------------------------------------------------------------------------
(* SpecRace: two management-tool processes run allocate_port_range on the   *)
(* same registry file, one file access at a time                            *)

RaceNames == IoInstances

\* the hosts seen by the probes of a racing call
RaceHosts == {QuietHost, HostOf(1, 1, test_offsets[1], FALSE)}

\* line 72: the process reads the file; lines 76-77: the name has a base
RaceRead(q, instance_name) ==
    /\ inflight[q].pc = "idle"
    /\ highest_port(allocated_ports) < MCP_BASE_PORT + MaxSlot * MCP_PORT_RANGE
    /\ LET loaded == load_registry(allocated_ports, TRUE)
       IN  inflight' = [inflight EXCEPT ![q] =
              IF instance_name \in DOMAIN loaded
              THEN [NoCall EXCEPT !.pc = "done", !.name = instance_name, !.loaded = loaded,
                                  !.base = loaded[instance_name]]
              ELSE [NoCall EXCEPT !.pc = "find", !.name = instance_name, !.loaded = loaded,
                                  !.fresh = TRUE]]
    /\ UNCHANGED <<allocated_ports, returned, pm_last, sm_vars>>

\* line 80: _find_next_port_base reads the file again and probes
RaceFind(q, host) ==
    /\ inflight[q].pc = "find"
    /\ inflight' = [inflight EXCEPT ![q].pc = "save",
                                    ![q].seen = load_registry(allocated_ports, TRUE),
                                    ![q].host = host,
                                    ![q].base = find_next_port_base(allocated_ports, host).base]
    /\ UNCHANGED <<allocated_ports, returned, pm_last, sm_vars>>

\* lines 83-87: the mapping read at line 72, with the new entry, replaces the file
RaceSave(q) ==
    /\ inflight[q].pc = "save"
    /\ allocated_ports' = save_registry(allocated_ports,
                                        DictPut(inflight[q].loaded, inflight[q].name,
                                                inflight[q].base),
                                        "written")
    /\ inflight' = [p \in ToolProcesses |->
                      IF p = q THEN [inflight[p] EXCEPT !.pc = "done", !.last = TRUE]
                      ELSE [inflight[p] EXCEPT !.last = FALSE]]
    /\ returned' = DictPut(returned, inflight[q].name, inflight[q].base)
    /\ pm_last' = [op |-> "allocate_port_range", name |-> inflight[q].name,
                   ret |-> inflight[q].base, probed |-> <<>>]
    /\ UNCHANGED sm_vars

\* the caller has its base; the process is ready for another call
RaceReturn(q) ==
    /\ inflight[q].pc = "done"
    /\ inflight' = [inflight EXCEPT ![q] = NoCall]
    /\ UNCHANGED <<allocated_ports, returned, pm_last, sm_vars>>

RaceNext ==
    \/ \E q \in ToolProcesses, n \in RaceNames : RaceRead(q, n)
    \/ \E q \in ToolProcesses, h \in RaceHosts : RaceFind(q, h)
    \/ \E q \in ToolProcesses : RaceSave(q)
    \/ \E q \in ToolProcesses : RaceReturn(q)

SpecRace == Init /\ [][RaceNext]_vars

\* both calls are over, were for different names that had no base, and read the same
\* file at lines 72 and 91, that is before either wrote, on the same host
RacedCalls(p, q) ==
    /\ p # q
    /\ inflight[p].pc = "done" /\ inflight[q].pc = "done"
    /\ inflight[p].fresh /\ inflight[q].fresh
    /\ inflight[p].name # inflight[q].name
    /\ inflight[p].loaded = inflight[q].loaded
    /\ inflight[p].seen = inflight[p].loaded
    /\ inflight[q].seen = inflight[q].loaded
    /\ inflight[p].host = inflight[q].host

----------------------------------------------------------------------------
(* SpecRelease: allocation and release of port ranges while the supervisor  *)
(* runs servers of an instance                                              *)

ReleaseInit ==
    /\ PMInit
    /\ config = [i \in SMInstances |->
                    deploy_template([j \in SMInstances |-> NoDocument], i,
                                    [server_name |-> "memory", command |-> "npx",
                                     args |-> MemoryArgs, env |-> EmptyDict,
                                     auto_start |-> TRUE], 0)[i]]
    /\ servers = <<>>
    /\ server_logs = EmptyDict
    /\ procs = <<>>

ReleaseNext ==
    \/ \E n \in PMInstances : AllocatePortRange(n, QuietHost)
    \/ \E n \in PMInstances : ReleasePortRange(n)
    \/ \E i \in SMInstances, s \in Servers : StartServer(i, s)
    \/ \E pid \in DOMAIN procs : ProcessExits(pid)

SpecRelease == ReleaseInit /\ [][ReleaseNext]_vars

\* the step is a call of release_port_range: the record of the last call is a new one
ReleaseStep ==
    /\ pm_last'.op = "release_port_range"
    /\ \/ pm_last.op # "release_port_range"
       \/ pm_last.name # pm_last'.name
       \/ pm_last.ret # pm_last'.ret

\* C33: release_port_range returns true exactly when the registry holds an entry for
\* the name; it removes that entry and no other, keeps every other base, leaves the
\* registry as it is when it returns false, and a step of it changes neither the table
\* of tracked processes, nor the logs, nor any subprocess.
C33_ReleaseTouchesOneEntry ==
    [][/\ \A n \in PMInstances :
             LET r == release_port_range(allocated_ports, n)
             IN  /\ r.ret = (n \in DOMAIN allocated_ports)
                 /\ DOMAIN r.reg = (DOMAIN allocated_ports) \ {n}
                 /\ \A m \in DOMAIN r.reg : r.reg[m] = allocated_ports[m]
                 /\ ~r.ret => r.reg = allocated_ports
       /\ ReleaseStep =>
             /\ allocated_ports' = release_port_range(allocated_ports, pm_last'.name).reg
             /\ pm_last'.ret = (pm_last'.name \in DOMAIN allocated_ports)
             /\ servers' = servers
             /\ server_logs' = server_logs
             /\ procs' = procs
             /\ config' = config]_vars

\* a release has just removed a base while a server of that instance is running and
\* two other instances keep theirs
C33_Witness ==
    /\ pm_last.op = "release_port_range"
    /\ pm_last.ret = TRUE
    /\ pm_last.name \in SMInstances
    /\ pm_last.name \notin DOMAIN allocated_ports
    /\ Cardinality(DOMAIN allocated_ports) = 2
    /\ \E s \in Servers : is_server_running(State, pm_last.name, s)

\* the requests named what in a sequence of <<handle, what>> requests
Sent(requests, what) == {k \in 1..Len(requests) : requests[k][2] = what}

\* C34: stop requests kill only after it has requested terminate and the wait that
\* follows terminate has timed out; when the process exits within that wait no kill is
\* sent; "stopped" is emitted only when the process has been seen to exit.
C34_KillOnlyAfterTerminate ==
    \A i \in SMInstances : \A s \in Servers : \A how \in StopHows :
        LET r == stop_server(State, i, s, how)
        IN  /\ \A k \in Sent(r.requests, "kill") :
                  /\ \E j \in Sent(r.requests, "terminate") : j < k
                  /\ how \in {"exits_on_kill", "kill_raises", "survives_kill"}
                  /\ is_server_running(State, i, s)
            /\ (is_server_running(State, i, s) /\ how = "exits_on_terminate") =>
                  /\ r.requests = <<<<handle(servers, i, s), "terminate">>>>
                  /\ r.ret = TRUE
            /\ Len(r.requests) <= 2
            /\ r.signals # <<>> =>
                  /\ r.signals = <<<<"stopped", s>>>>
                  /\ is_server_running(State, i, s)
                  /\ ~r.st.procs[handle(servers, i, s)].alive
                  /\ how \in {"exits_on_terminate", "exits_on_kill"}

\* a running pair with a captured line: its stop sends terminate alone when the process
\* exits in time, and terminate then kill when it does not
C34_Witness ==
    \E i \in SMInstances : \E s \in Servers :
        /\ is_server_running(State, i, s)
        /\ get_server_log(State, i, s) # <<>>
        /\ Len(stop_server(State, i, s, "exits_on_terminate").requests) = 1
        /\ stop_server(State, i, s, "exits_on_kill").requests[2][2] = "kill"

\* the pair has a configuration entry whose command Popen launches
Launchable(i, s) ==
    /\ has_server_config(config, i, s)
    /\ OdGet(get_instance_mcp_config(config, i).mcpServers, s).command \in Installed

\* C35: a start that launches records the new handle under the pair, leaves the pair
\* with an empty log whatever the previous process of the pair had captured, and emits
\* "started" once; the other pairs keep their handles and logs.
C35_LaunchResetsLog ==
    \A i \in SMInstances : \A s \in Servers :
        (Launchable(i, s) /\ ~is_server_running(State, i, s)) =>
            LET r == start_server(State, config, i, s)
            IN  /\ r.ret = TRUE
                /\ r.popen = 1
                /\ r.launched = <<Len(procs) + 1>>
                /\ tracked(r.st.servers, i, s)
                /\ handle(r.st.servers, i, s) = Len(procs) + 1
                /\ r.st.procs[Len(procs) + 1].alive
                /\ SubSeq(r.st.procs, 1, Len(procs)) = procs
                /\ get_server_log(r.st, i, s) = <<>>
                /\ r.signals = <<<<"started", s>>>>
                /\ \A s2 \in Servers \ {s} :
                      /\ get_server_log(r.st, i, s2) = get_server_log(State, i, s2)
                      /\ tracked(r.st.servers, i, s2) = tracked(servers, i, s2)
                      /\ tracked(servers, i, s2) =>
                            handle(r.st.servers, i, s2) = handle(servers, i, s2)

\* the pair is tracked with an exited process whose line was captured, and a start
\* launches its successor with an empty log
C35_Witness ==
    \E i \in SMInstances : \E s \in Servers :
        /\ Launchable(i, s)
        /\ tracked(servers, i, s)
        /\ ~is_server_running(State, i, s)
        /\ get_server_log(State, i, s) # <<>>
        /\ get_server_log(start_server(State, config, i, s).st, i, s) = <<>>

\* C36: a drain reads from the tracked processes that are alive and from no other.  It
\* leaves the log and the unread output of a pair whose process has exited as they are,
\* so that log never changes again; the lines it appends to a log are the lines of its
\* "output" notifications for that server, one notification per line, in that order.
C36_DrainSkipsExited ==
    [][LET d == update_server_logs(State)
       IN  /\ \A i \in SMInstances : \A s \in Servers :
                 tracked(servers, i, s) =>
                    LET pid == handle(servers, i, s)
                    IN  /\ ~procs[pid].alive =>
                              /\ get_server_log(d.st, i, s) = get_server_log(State, i, s)
                              /\ NotifiedLines(d.signals, s) = <<>>
                              /\ d.st.procs[pid] = procs[pid]
                              /\ get_server_log(State', i, s) = get_server_log(State, i, s)
                        /\ get_server_log(d.st, i, s)
                              = LastN(get_server_log(State, i, s) \o NotifiedLines(d.signals, s),
                                      LogCap)
                        /\ Len(NotifiedLines(d.signals, s))
                              = Len(captured(d.st.procs[pid])) - Len(captured(procs[pid]))
           /\ \A k \in 1..Len(d.signals) : d.signals[k][1] = "output"]_vars

\* the process has exited with written lines unread, after a drain had captured a line
\* it wrote: the unread lines are not in the log
C36_Witness ==
    /\ ~procs[1].alive
    /\ procs[1].nread < Len(procs[1].out)
    /\ strip(procs[1].out[Len(procs[1].out)]) # <<>>
    /\ server_logs["alpha"]["memory"][Len(server_logs["alpha"]["memory"])] = <<"r">>
    /\ server_logs["alpha"]["memory"] = LastN(captured(procs[1]), LogCap)

----------------------------------------------------------------------------
(* Tool ports *)

\* the tool ids of the calls, and one more id that is not in the offset table
ToolIds == Tools \cup {"another-tool"}

\* the ids of the offset table
TableIds == Tools \ {"other-tool"}

\* C37: for two different instances that hold registry entries, no tool port of the
\* one is a tool port of the other, whatever the two tool ids: every offset is inside
\* the range of MCP_PORT_RANGE ports above the base.
C37_ToolPortsApartAcrossInstances ==
    /\ \A t \in ToolIds : tool_offset(t) > 0 /\ tool_offset(t) < MCP_PORT_RANGE
    /\ \A n \in DOMAIN allocated_ports : \A m \in DOMAIN allocated_ports :
          n # m =>
             \A t \in ToolIds : \A u \in ToolIds :
                get_tool_port(allocated_ports, n, t, QuietHost).ret
                   # get_tool_port(allocated_ports, m, u, QuietHost).ret

\* three instances hold bases and the last call was a get_tool_port that had to
\* allocate on a host with busy ports
C37_Witness ==
    /\ Cardinality(DOMAIN allocated_ports) = 3
    /\ pm_last.op = "get_tool_port"
    /\ pm_last.probed # <<>>
    /\ Len(pm_last.probed) > Len(test_offsets)
    /\ pm_last.name \in DOMAIN allocated_ports

\* C38: within one instance two different tool ids get the same port exactly when both
\* are outside the offset table; two different ids of which one is in the table get
\* different ports.
C38_SamePortIffBothUnknown ==
    \A n \in DOMAIN allocated_ports : \A t \in ToolIds : \A u \in ToolIds :
        t # u =>
           ((get_tool_port(allocated_ports, n, t, QuietHost).ret
               = get_tool_port(allocated_ports, n, u, QuietHost).ret)
            <=> (t \notin TableIds /\ u \notin TableIds))

\* the last call gave an instance the port of an id outside the table, base + 90, which
\* is the port of any other such id and of no id of the table
C38_Witness ==
    /\ pm_last.op = "get_tool_port"
    /\ pm_last.name \in DOMAIN allocated_ports
    /\ pm_last.ret = get_tool_port(allocated_ports, pm_last.name, "another-tool", QuietHost).ret
    /\ pm_last.ret = get_tool_port(allocated_ports, pm_last.name, "other-tool", QuietHost).ret
    /\ Cardinality(DOMAIN allocated_ports) = 2

\* C39: whenever stop returns true for a pair whose configuration names a command that
\* can be launched, a start of the same pair in the state the stop leaves launches one
\* new subprocess, returns true, and is_running then reports true; the stop may have
\* left the entry of the dead process in place or removed it.  The same holds for a
\* start in any later state in which the pair is still not running.
C39_StoppedCanRestart ==
    /\ \A i \in SMInstances : \A s \in Servers :
          (~is_server_running(State, i, s) /\ Launchable(i, s)) =>
              LET q == start_server(State, config, i, s)
              IN  q.ret /\ q.launched = <<Len(procs) + 1>> /\ is_server_running(q.st, i, s)
    /\ \A i \in SMInstances : \A s \in Servers : \A how \in HowsFor(i, s) :
        LET r == stop_server(State, i, s, how)
        IN  (r.ret /\ Launchable(i, s)) =>
                LET q == start_server(r.st, config, i, s)
                IN  /\ ~is_server_running(r.st, i, s)
                    /\ q.ret
                    /\ q.launched = <<Len(r.st.procs) + 1>>
                    /\ Len(q.st.procs) = Len(r.st.procs) + 1
                    /\ q.st.procs[Len(q.st.procs)].alive
                    /\ handle(q.st.servers, i, s) = Len(q.st.procs)
                    /\ is_server_running(q.st, i, s)

\* a pair restarted over the entry a stop left behind: its first process is dead, its
\* second one is tracked and alive
C39_Witness ==
    \E i \in SMInstances : \E s \in Servers :
        /\ Launchable(i, s)
        /\ Len(procs) = 2
        /\ procs[1].instance = i /\ procs[1].server = s /\ ~procs[1].alive
        /\ procs[2].instance = i /\ procs[2].server = s /\ procs[2].alive
        /\ tracked(servers, i, s) /\ handle(servers, i, s) = 2

----------------------------------------------------------------------------
(* The process supervisor with the servers of two instances: both          *)
(* instances have the memory and the filesystem template deployed.         *)

FleetInstances == {"alpha", "beta"}

FleetDocument ==
    LET none == [i \in FleetInstances |-> NoDocument]
        memory == [server_name |-> "memory", command |-> "npx", args |-> MemoryArgs,
                   env |-> EmptyDict, auto_start |-> TRUE]
        filesystem == [server_name |-> "filesystem", command |-> "npx",
                       args |-> FilesystemArgs, env |-> EmptyDict, auto_start |-> TRUE]
    IN  deploy_template(deploy_template(none, "alpha", memory, 0),
                        "alpha", filesystem, 0)["alpha"]

FleetInit ==
    /\ PMInit
    /\ config = [i \in FleetInstances |-> FleetDocument]
    /\ servers = <<>>
    /\ server_logs = EmptyDict
    /\ procs = <<>>

FleetNext ==
    \/ \E i \in FleetInstances, s \in Servers : StartServer(i, s)
    \/ \E i \in FleetInstances, s \in Servers : \E how \in HowsFor(i, s) : StopServer(i, s, how)
    \/ \E i \in FleetInstances : \E hows \in AllHowsFor(i) : StopAllServers(i, hows)
    \/ UpdateServerLogs
    \/ \E pid \in DOMAIN procs : ProcessExits(pid)
    \/ \E pid \in DOMAIN procs, line \in RawLines : ProcessWrites(pid, line)

SpecFleet == FleetInit /\ [][FleetNext]_vars

\* the processes launched for an instance
ProcessesOf(ps, i) == {pid \in DOMAIN ps : ps[pid].instance = i}

\* C40: whenever stop_all for an instance returns true, every process launched for the
\* instance is dead and list_running of the instance is empty in the state it leaves,
\* and the tracking table, the logs and the processes of every other instance are the
\* ones of the state before.
C40_StopAllTrueLeavesNoneAlive ==
    \A i \in FleetInstances : \A hows \in AllHowsFor(i) :
        LET r == stop_all_servers(State, i, hows)
        IN  r.ret =>
              /\ get_running_servers(r.st, i) = <<>>
              /\ \A s \in Servers : ~is_server_running(r.st, i, s)
              /\ DOMAIN r.st.procs = DOMAIN procs
              /\ \A pid \in ProcessesOf(procs, i) : ~r.st.procs[pid].alive
              /\ \A j \in FleetInstances \ {i} :
                    /\ OdHas(r.st.servers, j) = OdHas(servers, j)
                    /\ OdHas(servers, j) => OdGet(r.st.servers, j) = OdGet(servers, j)
                    /\ (j \in DOMAIN r.st.server_logs) = (j \in DOMAIN server_logs)
                    /\ j \in DOMAIN server_logs => r.st.server_logs[j] = server_logs[j]
                    /\ \A pid \in ProcessesOf(procs, j) : r.st.procs[pid] = procs[pid]

\* stop_all of one instance returns true after ending a live process, while the other
\* instance has a live process and a captured line
C40_Witness ==
    \E i \in FleetInstances : \E j \in FleetInstances \ {i} :
        /\ \E s \in Servers : is_server_running(State, i, s)
        /\ \E s \in Servers :
              /\ is_server_running(State, j, s)
              /\ get_server_log(State, j, s) # <<>>
        /\ \E hows \in AllHowsFor(i) : stop_all_servers(State, i, hows).ret

====
